---- MODULE Spec2Model ----
(***************************************************************************)
(* Buffered byte-stream layer of the ThreeSpace communication backends:    *)
(* ThreespaceSocketComClass (communication/socket.py, the base of the      *)
(* Bluetooth Classic RFCOMM transport) and ThreespaceBLEComClass           *)
(* (communication/ble.py).                                                 *)
(*                                                                         *)
(* One handle is modelled.  `transport` says which class it is an instance *)
(* of; the handle is open and its receive buffer is empty, as after a      *)
(* successful open().  The peer emits bytes at any time into `chan`:       *)
(*   socket : the kernel's receive queue of the connected stream socket,   *)
(*   ble    : the notification callbacks queued on the handle's asyncio    *)
(*            event loop, which run only while the loop is running.        *)
(* Time is counted in ticks since the start of the call in progress.       *)
(***************************************************************************)
EXTENDS Integers, Sequences, FiniteSets, TLC

\* ---------------------------------------------------------------- bounds
MaxBytes   == 3     \* bytes the peer emits in one behaviour
MaxN       == 2     \* largest num_bytes / max_length argument
MaxElapsed == 2     \* ticks observed during one call
MaxPulls   == 2     \* the per-call iteration counter saturates here
MaxWrite   == 41    \* longest byte sequence handed to the ble write
MaxNow     == 3     \* ticks of time.time() observed in one behaviour
MaxThreads == 2     \* scan threads of the Bluetooth scanner in one behaviour
MaxFound   == 2     \* devices in the result of one inquiry
MaxHeld    == 1     \* devices in a list the caller holds on to

\* ------------------------------------------------------ program constants
MaxPull     == 1000 \* __update_buffer(max_bytes=1000)
\* time.time() minus loop.time() in ticks.  time.time() counts from the epoch and
\* loop.time() (the monotonic clock asyncio timers run on) from an arbitrary
\* earlier origin such as boot, so the difference is positive and in practice
\* far larger than any timeout; 1 tick is the smallest value that shows it.
ClockOffset == 1
DefaultPacket == 20 \* ble: self.max_packet_size before open

Bytes    == {0, 1}
Patterns == {<<1>>, <<0, 1>>}
Timeouts == {0, 1}
Payloads == {<<>>, <<0>>, <<0, 1>>}
Mtus     == {23, 27, 43}   \* client.mtu_size values a connection negotiates
Addresses == {"a1", "a2"}  \* device.address of the sensors in range

\* a class attribute that is None is <<>>, one that is the number n is <<n>>
None == <<>>
ScanTimeouts == {None, <<0>>, <<1>>, <<2>>}
FindCounts   == {None, <<0>>, <<1>>, <<2>>}
Expirations  == {0, 1}     \* SCANNER_EXPIRATION_TIME, in ticks

VARIABLES
    transport,  \* "socket" | "ble"
    timeout,    \* self.__timeout, in ticks
    buffer,     \* self.buffer
    chan,       \* bytes emitted by the peer and not yet appended to buffer
    peerClosed, \* socket: the peer has shut the stream down (recv gives b'')
    sockMode,   \* socket: "blocking" | "nonblocking" | "timeout"
    event,      \* ble: self.data_read_event is set
    pc,         \* position of the call in progress
    op,         \* the call in progress and its arguments
    elapsed,    \* ticks since the call started
    pulls,      \* iterations of the wait loop in this call (saturating)
    timedOut,   \* the wait loop of this call ended on its time check
    snap,       \* buffer when the wait finished (set on return)
    outcome,    \* "bytes" | "int" | "IndexError" | "size" | "none"
    result,     \* the value returned
    lastPeek,   \* the peek that returned just before, while buffer is untouched
    blocked,    \* history: a recv was entered that waits for the peer
    unmet,      \* history: the buffer did not meet the call's condition at the call
    emptyRecv,  \* history: the last receive of a length call returned no bytes
    wire,       \* socket: the bytes the kernel accepted from the write just made
    sent,       \* history: every byte the peer emitted, in order
    consumed,   \* history: every byte returned by read / read_until, in order
    opened,     \* socket: self._opened
    sock,       \* socket: self.socket is "fresh" | "connected" | "closed"
    connected,  \* ble: self.client.is_connected
    subscribed, \* ble: __on_data_received is registered on the connection
    max_packet_size, \* ble: self.max_packet_size
    call,       \* the last open / close / write made on the handle
    prev,       \* the call made before it
    everClosed, \* history: close() was called while the handle was open
    failedOpen, \* history: an open() of this socket handle failed to connect
    wpc,        \* ble write: "idle" | "loop"
    wbytes,     \* ble write: the bytes argument
    start_index, \* ble write: start_index
    gatt,       \* ble write: payloads of the write_gatt_char calls, in issue order
    SCANNER_TIMEOUT,    \* ble class attribute
    SCANNER_FIND_COUNT, \* ble class attribute
    scanning,   \* ble: cls.SCANNER is started
    discovered_devices, \* ble: address -> last_found
    queued,     \* ble: addresses whose detection callback waits on the scanner loop
    scanPc,     \* update_nearby_devices: "idle" | "check" | "run" | "stop" | "done"
    now,        \* time.time(), in ticks
    start_time, \* update_nearby_devices: start_time
    SCANNER_CONTINOUS,       \* ble class attribute
    SCANNER_EXPIRATION_TIME, \* ble class attribute
    scanResult, \* ble: what the last update / get-discovered call returned
    heard,      \* history: addresses detected since the one-shot scan started
    refreshed,  \* history: entries the callbacks that ran last overwrote
    BLUETOOTH_AVAILABLE, \* bluetooth.py: pybluez2 could be imported
    scannerMade, \* ThreespaceBluetoothComClass.SCANNER is not None
    enabled,    \* Scanner.enabled
    done,       \* Scanner.done
    continous,  \* Scanner.continous
    execute,    \* Scanner.execute
    updated,    \* Scanner.updated
    nearby,     \* Scanner.nearby: None, or <<the list the last inquiry stored>>
    tpc,        \* position of each scan thread in Scanner.process
    fpc,        \* position of the foreground caller
    fret,       \* where the foreground caller goes on when start() returns
    farg,       \* the argument of the foreground call (continous / wait_for_update)
    fout,       \* what the last foreground call gave its caller
    sinceStop   \* history: inquiries begun since enabled was last set false

\* the stream layer's variables other than transport and buffer
ioVars ==
    <<timeout, chan, peerClosed, sockMode, event, pc, op, elapsed, pulls,
      timedOut, snap, outcome, result, lastPeek, blocked, unmet, emptyRecv,
      wire, sent, consumed>>

lifeVars ==
    <<opened, sock, connected, subscribed, max_packet_size, call, prev,
      everClosed, failedOpen>>

writeVars == <<wpc, wbytes, start_index, gatt>>

scanVars ==
    <<SCANNER_TIMEOUT, SCANNER_FIND_COUNT, scanning, discovered_devices, queued,
      scanPc, now, start_time>>

discVars ==
    <<SCANNER_CONTINOUS, SCANNER_EXPIRATION_TIME, scanResult, heard, refreshed>>

btVars ==
    <<BLUETOOTH_AVAILABLE, scannerMade, enabled, done, continous, execute,
      updated, nearby, tpc, fpc, fret, farg, fout, sinceStop>>

\* auto_detect as a generator: the backend it belongs to, its position, the
\* filter it was given, the list it iterates and the index in it, the handles
\* yielded so far, and whether an exception left it
VARIABLES backend, apc, filter, source, idx, yielded, araised

autoVars == <<backend, apc, filter, source, idx, yielded, araised>>

\* pairing: sys.platform, the devices the operating system holds as paired,
\* and the last unpair call with its outcome
VARIABLES platform, paired, pcall

pairVars == <<platform, paired, pcall>>

\* the snapshot the caller of a discovery call holds
VARIABLE held

vars ==
    <<transport, buffer, ioVars, lifeVars, writeVars, scanVars, discVars, btVars,
      autoVars, pairVars, held>>

\* what the calls of the stream layer leave alone
notStream ==
    <<lifeVars, writeVars, scanVars, discVars, btVars, autoVars, pairVars, held>>

\* what open / close / write leave alone
notLife == <<ioVars, scanVars, discVars, btVars, autoVars, pairVars, held>>

\* what the ble scanner leaves alone
notScan ==
    <<transport, buffer, ioVars, lifeVars, writeVars, btVars, autoVars, pairVars,
      held>>

\* what the Bluetooth scanner leaves alone
notBt ==
    <<transport, buffer, ioVars, lifeVars, writeVars, scanVars, discVars,
      autoVars, pairVars, held>>

\* what the auto_detect generators leave alone
notAuto == <<transport, buffer, ioVars, lifeVars, writeVars, pairVars>>

\* --------------------------------------------------------------- helpers
Min(a, b) == IF a < b THEN a ELSE b

\* s[:k] for k >= 0
SliceTo(s, k) == SubSeq(s, 1, Min(k, Len(s)))

\* s after `del s[:k]` for k >= 0
DelTo(s, k) == SubSeq(s, Min(k, Len(s)) + 1, Len(s))

\* pat occurs in s at 0-based offset i
OccursAt(s, pat, i) ==
    /\ i + Len(pat) <= Len(s)
    /\ SubSeq(s, i + 1, i + Len(pat)) = pat

\* `pat in s`
Contains(s, pat) == \E i \in 0..Len(s) : OccursAt(s, pat, i)

\* s.index(pat), defined when Contains(s, pat)
Index(s, pat) ==
    CHOOSE i \in 0..Len(s) :
        /\ OccursAt(s, pat, i)
        /\ \A j \in 0..(i - 1) : ~OccursAt(s, pat, j)

NoOp == [name |-> "none", n |-> 0, pat |-> <<>>, hasMax |-> FALSE, max |-> 0]

NoPeek == [valid |-> FALSE, n |-> 0, result |-> <<>>]

ReadOp(k)   == [name |-> "read", n |-> k, pat |-> <<>>, hasMax |-> FALSE, max |-> 0]
PeekOp(k)   == [name |-> "peek", n |-> k, pat |-> <<>>, hasMax |-> FALSE, max |-> 0]
ReadUntilOp(p) ==
    [name |-> "read_until", n |-> 0, pat |-> p, hasMax |-> FALSE, max |-> 0]
PeekUntilOp(p, h, m) ==
    [name |-> "peek_until", n |-> 0, pat |-> p, hasMax |-> h, max |-> m]
LengthOp    == [name |-> "length", n |-> 0, pat |-> <<>>, hasMax |-> FALSE, max |-> 0]
WriteOp(b)  == [name |-> "write", bytes |-> b]

\* the calls a client can make; max_length is None (hasMax = FALSE) or 0..MaxN
Calls ==
    {ReadOp(k) : k \in 0..MaxN} \cup {PeekOp(k) : k \in 0..MaxN}
    \cup {ReadUntilOp(p) : p \in Patterns}
    \cup {PeekUntilOp(p, FALSE, 0) : p \in Patterns}
    \cup {PeekUntilOp(p, TRUE, m) : p \in Patterns, m \in 0..MaxN}
    \cup {LengthOp}

\* what is remembered of a call of open / close / write: the value returned
\* ("True" | "False" | "None", or "raised" for an exception), check_open() at
\* the call, the connect / start_notify / socket.close-or-disconnect calls it
\* made, whether it left the buffer as it was, and whether every step of it
\* completed
CallRec(nm, r, o, c, n, t, k, d) ==
    [name |-> nm, ret |-> r, wasOpen |-> o, connects |-> c, subscribes |-> n,
     teardowns |-> t, bufKept |-> k, completed |-> d]

NoCall == CallRec("none", "none", FALSE, 0, 0, 0, TRUE, TRUE)

\* what is remembered of a call that returns the discovered devices: which
\* call, SCANNER_CONTINOUS and time.time() at the call, the map once the queued
\* callbacks had run (before any entry was removed) and the map returned
ResultRec(nm, c, t, b, d) ==
    [call |-> nm, cont |-> c, at |-> t, before |-> b, devices |-> d]

NoResult == ResultRec("none", FALSE, 0, <<>>, <<>>)

\* no unpair call made; nothing paired
NoPair == [address |-> "none", outcome |-> "none"]

PairQuiet ==
    /\ platform = "linux"
    /\ paired = {}
    /\ pcall = NoPair

\* the caller holds no snapshot
NoHeld == [kind |-> "none", shared |-> FALSE, at |-> <<>>]

\* Scanner.__init__, before any thread exists and before any auto_detect
ScannerQuiet ==
    /\ scannerMade = FALSE
    /\ enabled = FALSE
    /\ done = TRUE
    /\ continous = FALSE
    /\ execute = FALSE
    /\ updated = FALSE
    /\ nearby = None
    /\ tpc = [i \in 1..MaxThreads |-> "unborn"]
    /\ fpc = "idle"
    /\ fret = "idle"
    /\ farg = FALSE
    /\ fout = "none"
    /\ sinceStop = 0
    /\ backend = "none"
    /\ apc = "idle"
    /\ filter = "default"
    /\ source = <<>>
    /\ idx = 0
    /\ yielded = <<>>
    /\ araised = FALSE
    /\ held = NoHeld

\* the Bluetooth backend as the module is loaded on a platform that is not
\* Windows
BtQuiet == ScannerQuiet /\ PairQuiet

\* the scanner as the class is loaded: not started, nothing discovered
BleQuiet ==
    /\ SCANNER_TIMEOUT = <<5>>
    /\ SCANNER_FIND_COUNT = <<1>>
    /\ scanning = FALSE
    /\ discovered_devices = <<>>
    /\ queued = {}
    /\ scanPc = "idle"
    /\ now = 0
    /\ start_time = 0
    /\ SCANNER_CONTINOUS = FALSE
    /\ SCANNER_EXPIRATION_TIME = 5
    /\ scanResult = NoResult
    /\ heard = {}
    /\ refreshed = {}

\* no discovery of either kind is under way, the Bluetooth library is there
ScanQuiet ==
    /\ BleQuiet
    /\ BLUETOOTH_AVAILABLE = TRUE
    /\ BtQuiet

\* the buffer does not yet hold what call o waits for
Unsatisfied(o) ==
    CASE o.name \in {"read", "peek"} -> Len(buffer) < o.n
      [] o.name = "read_until"       -> ~Contains(buffer, o.pat)
      [] o.name = "peek_until"       ->
            ~Contains(buffer, o.pat) /\ (~o.hasMax \/ Len(buffer) < o.max)
      [] OTHER                       -> FALSE

Init ==
    /\ transport \in {"socket", "ble"}
    /\ timeout \in Timeouts
    /\ buffer = <<>>
    /\ chan = <<>>
    /\ peerClosed = FALSE
    /\ sockMode = "blocking"
    /\ event = FALSE
    /\ pc = "idle"
    /\ op = NoOp
    /\ elapsed = 0
    /\ pulls = 0
    /\ timedOut = FALSE
    /\ snap = <<>>
    /\ outcome = "none"
    /\ result = <<>>
    /\ lastPeek = NoPeek
    /\ blocked = FALSE
    /\ unmet = FALSE
    /\ opened = (transport = "socket")
    /\ sock = IF transport = "socket" THEN "connected" ELSE "fresh"
    /\ connected = (transport = "ble")
    /\ subscribed = (transport = "ble")
    /\ max_packet_size = DefaultPacket
    /\ call = NoCall
    /\ prev = NoCall
    /\ everClosed = FALSE
    /\ failedOpen = FALSE
    /\ wpc = "idle"
    /\ wbytes = <<>>
    /\ start_index = 0
    /\ gatt = <<>>
    /\ ScanQuiet
    /\ emptyRecv = FALSE
    /\ wire = <<>>
    /\ sent = <<>>
    /\ consumed = <<>>

\* ----------------------------------------------------------- environment
\* the peer emits one byte
Arrive ==
    /\ ~peerClosed
    /\ Len(sent) < MaxBytes
    /\ \E b \in Bytes :
        /\ chan' = Append(chan, b)
        /\ sent' = Append(sent, b)
    /\ UNCHANGED <<transport, timeout, buffer, peerClosed, sockMode, event, pc,
                   op, elapsed, pulls, timedOut, snap, outcome, result, lastPeek,
                   blocked, unmet, emptyRecv, wire, consumed>>
    /\ UNCHANGED notStream

\* the peer shuts the stream down: later receives on an empty queue give b''
PeerClose ==
    /\ transport = "socket"
    /\ ~peerClosed
    /\ peerClosed' = TRUE
    /\ UNCHANGED <<transport, timeout, buffer, chan, sockMode, event, pc, op,
                   elapsed, pulls, timedOut, snap, outcome, result, lastPeek,
                   blocked, unmet, emptyRecv, wire, sent, consumed>>
    /\ UNCHANGED notStream

\* ble: the deadline handed to async_timeout.timeout_at is start_time + timeout
\* on the time.time() clock; the loop compares it with loop.time(), which is
\* ClockOffset behind
BleDeadline == timeout + ClockOffset

BleTimerDue == transport = "ble" /\ pc = "await" /\ elapsed >= BleDeadline

\* time passes while a call is in progress.  The clock is read at the time check
\* of __update_while, at the `while` of the ble coroutines and by the loop's
\* timer, so ticks are taken right before those reads.  A due timer of the
\* event loop fires before time moves on.
Tick ==
    /\ pc \in {"time", "step", "await"}
    /\ elapsed < MaxElapsed
    /\ ~BleTimerDue
    /\ elapsed' = elapsed + 1
    /\ UNCHANGED <<transport, timeout, buffer, chan, peerClosed, sockMode, event,
                   pc, op, pulls, timedOut, snap, outcome, result, lastPeek,
                   blocked, unmet, emptyRecv, wire, sent, consumed>>
    /\ UNCHANGED notStream

\* the timeout setter, between calls
SetTimeout ==
    /\ pc = "idle"
    /\ \E t \in Timeouts : t /= timeout /\ timeout' = t
    /\ UNCHANGED <<transport, buffer, chan, peerClosed, sockMode, event, pc, op,
                   elapsed, pulls, timedOut, snap, outcome, result, lastPeek,
                   blocked, unmet, emptyRecv, wire, sent, consumed>>
    /\ UNCHANGED notStream

\* a call returns `val` (kind `out`), leaving `rest` in the buffer, having
\* consumed `eaten`
Returns(out, val, rest, eaten) ==
    /\ pc = "finish"
    /\ pc' = "done"
    /\ snap' = buffer
    /\ outcome' = out
    /\ result' = val
    /\ buffer' = rest
    /\ consumed' = consumed \o eaten
    /\ UNCHANGED <<transport, timeout, chan, peerClosed, sockMode, event, op,
                   elapsed, pulls, timedOut, lastPeek, blocked, unmet, emptyRecv,
                   wire, sent>>
    /\ UNCHANGED notStream

\* the caller takes the result; a peek is remembered until the buffer changes
Done ==
    /\ pc = "done"
    /\ pc' = "idle"
    /\ lastPeek' = IF op.name = "peek" /\ outcome = "bytes"
                   THEN [valid |-> TRUE, n |-> op.n, result |-> result]
                   ELSE NoPeek
    /\ op' = NoOp
    /\ snap' = <<>>
    /\ outcome' = "none"
    /\ result' = <<>>
    /\ elapsed' = 0
    /\ pulls' = 0
    /\ timedOut' = FALSE
    /\ emptyRecv' = FALSE
    /\ wire' = <<>>
    /\ UNCHANGED <<transport, timeout, buffer, chan, peerClosed, sockMode, event,
                   blocked, unmet, sent, consumed>>
    /\ UNCHANGED notStream

\* ------------------------------------------ ThreespaceSocketComClass
\* the lambda each operation hands to __update_while
SockCondition(o) ==
    CASE o.name \in {"read", "peek"} -> Len(buffer) < o.n
      [] o.name = "read_until"       -> ~Contains(buffer, o.pat)
      [] o.name = "peek_until"       ->
            ~Contains(buffer, o.pat) /\ (~o.hasMax \/ Len(buffer) < o.max)
      [] OTHER                       -> FALSE

\* a client calls read / peek / read_until / peek_until / length
SockCall ==
    /\ transport = "socket"
    /\ pc = "idle"
    /\ \E o \in Calls :
        /\ op' = o
        /\ unmet' = Unsatisfied(o)
        /\ pc' = IF o.name = "length" THEN "pull" ELSE "cond"
    /\ elapsed' = 0
    /\ pulls' = 0
    /\ timedOut' = FALSE
    /\ UNCHANGED <<transport, timeout, buffer, chan, peerClosed, sockMode, event,
                   snap, outcome, result, lastPeek, blocked, emptyRecv, wire,
                   sent, consumed>>
    /\ UNCHANGED notStream

\* __update_while: `while condition():`
SockUpdateWhile ==
    /\ transport = "socket"
    /\ pc = "cond"
    /\ pc' = IF SockCondition(op) THEN "pull" ELSE "finish"
    /\ UNCHANGED <<transport, timeout, buffer, chan, peerClosed, sockMode, event,
                   op, elapsed, pulls, timedOut, snap, outcome, result, lastPeek,
                   blocked, unmet, emptyRecv, wire, sent, consumed>>
    /\ UNCHANGED notStream

\* the mode settimeout(self.timeout) leaves the socket in
ModeAfterSettimeout == IF timeout = 0 THEN "nonblocking" ELSE "timeout"

\* the mode recv is entered in: __update_buffer calls setblocking(False) first
RecvMode == "nonblocking"

\* __update_buffer: setblocking(False); recv(max_bytes); on BlockingIOError
\* return False, else append, settimeout(self.timeout), return True.
\* In __update_while the return value is ignored; in length it drives the loop.
SockUpdateBuffer ==
    /\ transport = "socket"
    /\ pc = "pull"
    /\ \/ \* bytes are queued: recv returns some of them
          /\ chan /= <<>>
          /\ \E k \in 1..Min(Len(chan), MaxPull) :
                /\ buffer' = buffer \o SubSeq(chan, 1, k)
                /\ chan' = SubSeq(chan, k + 1, Len(chan))
          /\ sockMode' = ModeAfterSettimeout
          /\ lastPeek' = NoPeek
          /\ pulls' = Min(pulls + 1, MaxPulls)
          /\ pc' = IF op.name = "length" THEN "pull" ELSE "time"
          /\ emptyRecv' = FALSE
          /\ UNCHANGED blocked
       \/ \* end of stream: recv returns b''
          /\ chan = <<>> /\ peerClosed
          /\ sockMode' = ModeAfterSettimeout
          /\ pulls' = Min(pulls + 1, MaxPulls)
          /\ pc' = IF op.name = "length" THEN "pull" ELSE "time"
          /\ emptyRecv' = (op.name = "length")
          /\ UNCHANGED <<buffer, chan, lastPeek, blocked>>
       \/ \* nothing queued: BlockingIOError on a non-blocking socket, a wait
          \* for the peer otherwise
          /\ chan = <<>> /\ ~peerClosed
          /\ sockMode' = RecvMode
          /\ IF RecvMode = "nonblocking"
             THEN /\ pulls' = Min(pulls + 1, MaxPulls)
                  /\ pc' = IF op.name = "length" THEN "finish" ELSE "time"
                  /\ UNCHANGED blocked
             ELSE /\ blocked' = TRUE
                  /\ UNCHANGED <<pc, pulls>>
          /\ UNCHANGED <<buffer, chan, lastPeek, emptyRecv>>
    /\ UNCHANGED <<transport, timeout, peerClosed, event, op, elapsed, timedOut,
                   snap, outcome, result, unmet, wire, sent, consumed>>
    /\ UNCHANGED notStream

\* __update_while: `if time.perf_counter() - start_time >= self.timeout: return`
SockTimeCheck ==
    /\ transport = "socket"
    /\ pc = "time"
    /\ IF elapsed >= timeout
       THEN pc' = "finish" /\ timedOut' = TRUE
       ELSE pc' = "cond" /\ timedOut' = FALSE
    /\ UNCHANGED <<transport, timeout, buffer, chan, peerClosed, sockMode, event,
                   op, elapsed, pulls, snap, outcome, result, lastPeek, blocked,
                   unmet, emptyRecv, wire, sent, consumed>>
    /\ UNCHANGED notStream

\* a read that forgets `del buffer[:amount]`
SockReadKeeps ==
    /\ transport = "socket" /\ op.name = "read"
    /\ LET amount == Min(Len(buffer), op.n)
       IN Returns("bytes", SliceTo(buffer, amount), buffer, SliceTo(buffer, amount))

\* read: amount = min(len(buffer), num_bytes); result = buffer[:amount];
\* del buffer[:amount]
SockRead ==
    /\ transport = "socket" /\ op.name = "read"
    /\ LET amount == Min(Len(buffer), op.n)
       IN Returns("bytes", SliceTo(buffer, amount), DelTo(buffer, amount),
                  SliceTo(buffer, amount))

\* peek: amount = min(len(buffer), num_bytes); return buffer[:amount]
SockPeek ==
    /\ transport = "socket" /\ op.name = "peek"
    /\ LET amount == Min(Len(buffer), op.n)
       IN Returns("bytes", SliceTo(buffer, amount), buffer, <<>>)

\* a read_until that forgets `buffer.clear()` after a timeout
SockReadUntilNoClear ==
    /\ transport = "socket" /\ op.name = "read_until"
    /\ IF Contains(buffer, op.pat)
       THEN LET length == Index(buffer, op.pat) + Len(op.pat)
            IN Returns("bytes", SliceTo(buffer, length), DelTo(buffer, length),
                       SliceTo(buffer, length))
       ELSE Returns("bytes", buffer, buffer, buffer)

\* read_until: through the end of the first match, else the whole buffer
SockReadUntil ==
    /\ transport = "socket" /\ op.name = "read_until"
    /\ IF Contains(buffer, op.pat)
       THEN LET length == Index(buffer, op.pat) + Len(op.pat)
            IN Returns("bytes", SliceTo(buffer, length), DelTo(buffer, length),
                       SliceTo(buffer, length))
       ELSE Returns("bytes", buffer, <<>>, buffer)

\* peek_until: buffer[:length] when the pattern is there; otherwise the code
\* evaluates buffer[length], one element or an IndexError
SockPeekUntil ==
    /\ transport = "socket" /\ op.name = "peek_until"
    /\ IF Contains(buffer, op.pat)
       THEN LET found  == Index(buffer, op.pat) + Len(op.pat)
                length == IF op.hasMax THEN Min(found, op.max) ELSE found
            IN Returns("bytes", SliceTo(buffer, length), buffer, <<>>)
       ELSE LET length == IF op.hasMax THEN Min(Len(buffer), op.max) ELSE Len(buffer)
            IN IF length < Len(buffer)
               THEN Returns("int", <<buffer[length + 1]>>, buffer, <<>>)
               ELSE Returns("IndexError", <<>>, buffer, <<>>)

\* length: `while self.__update_buffer(): pass; return len(self.buffer)`
SockLength ==
    /\ transport = "socket" /\ op.name = "length"
    /\ Returns("size", <<Len(buffer)>>, buffer, <<>>)

\* socket.send as the socket's mode allows: it hands the kernel as many of the
\* bytes as the send queue takes and returns that count; with nothing taken a
\* blocking socket waits, a non-blocking one raises BlockingIOError and one
\* with a timeout raises TimeoutError
SendAccepts(b, mode) ==
    {k \in 0..Len(b) : (k = 0 /\ b /= <<>>) => mode /= "blocking"}

\* write: `self.socket.send(bytes)`, the count returned is not looked at
SockWrite ==
    /\ transport = "socket"
    /\ pc = "idle"
    /\ \E b \in Payloads :
        /\ op' = WriteOp(b)
        /\ \E k \in SendAccepts(b, sockMode) :
            /\ wire' = SliceTo(b, k)
            /\ outcome' = IF k = 0 /\ b /= <<>> THEN "raised" ELSE "none"
    /\ pc' = "done"
    /\ UNCHANGED <<transport, timeout, buffer, chan, peerClosed, sockMode, event,
                   elapsed, pulls, timedOut, snap, result, lastPeek, blocked,
                   unmet, emptyRecv, sent, consumed>>
    /\ UNCHANGED notStream

\* --------------------------------------------- ThreespaceBLEComClass
\* the `while` condition of __await_num_bytes / __await_pattern
BleCondition(o) ==
    CASE o.name \in {"read", "peek"} -> Len(buffer) < o.n /\ elapsed < timeout
      [] o.name \in {"read_until", "peek_until"} ->
            /\ ~Contains(buffer, o.pat)
            /\ elapsed < timeout
            /\ (~o.hasMax \/ Len(buffer) < o.max)
      [] OTHER -> FALSE

\* a client calls read / peek / read_until / peek_until / length: each hands a
\* coroutine to event_loop.run_until_complete
BleCall ==
    /\ transport = "ble"
    /\ pc = "idle"
    /\ \E o \in Calls : op' = o /\ unmet' = Unsatisfied(o)
    /\ pc' = "run"
    /\ elapsed' = 0
    /\ pulls' = 0
    /\ timedOut' = FALSE
    /\ UNCHANGED <<transport, timeout, buffer, chan, peerClosed, sockMode, event,
                   snap, outcome, result, lastPeek, blocked, emptyRecv, wire,
                   sent, consumed>>
    /\ UNCHANGED notStream

\* a callback that puts the new data in front of the buffer
BleOnDataReceivedFront ==
    /\ buffer' = chan \o buffer
    /\ chan' = <<>>
    /\ event' = (event \/ chan /= <<>>)
    /\ lastPeek' = IF chan = <<>> THEN lastPeek ELSE NoPeek

\* a callback that appends the data and does not set the event
BleOnDataReceivedSilent ==
    /\ buffer' = buffer \o chan
    /\ chan' = <<>>
    /\ event' = event
    /\ lastPeek' = IF chan = <<>> THEN lastPeek ELSE NoPeek

\* __on_data_received for every notification queued on the loop:
\* buffer += data; data_read_event.set()
BleOnDataReceived ==
    /\ buffer' = buffer \o chan
    /\ chan' = <<>>
    /\ event' = (event \/ chan /= <<>>)
    /\ lastPeek' = IF chan = <<>> THEN lastPeek ELSE NoPeek

\* run_until_complete starts the loop: the callbacks queued before the call run
\* first, then the coroutine gets its first step
BleRun ==
    /\ transport = "ble"
    /\ pc = "run"
    /\ BleOnDataReceived
    /\ pc' = "step"
    /\ UNCHANGED <<transport, timeout, peerClosed, sockMode, op, elapsed, pulls,
                   timedOut, snap, outcome, result, blocked, unmet, emptyRecv,
                   wire, sent, consumed>>
    /\ UNCHANGED notStream

\* the coroutine runs to its next suspension: at the `while` it either enters
\* __await_read, which clears the event and suspends on data_read_event.wait()
\* under timeout_at(start_time + timeout), or it leaves the loop and returns
BleStep ==
    /\ transport = "ble"
    /\ pc = "step"
    /\ IF BleCondition(op)
       THEN /\ pc' = "await"
            /\ event' = FALSE
            /\ pulls' = Min(pulls + 1, MaxPulls)
            /\ timedOut' = FALSE
       ELSE /\ pc' = "finish"
            /\ timedOut' = (op.name /= "length" /\ elapsed >= timeout)
            /\ UNCHANGED <<event, pulls>>
    /\ UNCHANGED <<transport, timeout, buffer, chan, peerClosed, sockMode, op,
                   elapsed, snap, outcome, result, lastPeek, blocked, unmet,
                   emptyRecv, wire, sent, consumed>>
    /\ UNCHANGED notStream

\* while the coroutine is suspended the loop runs the notification callbacks;
\* the set event schedules the coroutine's next step
BleNotify ==
    /\ transport = "ble"
    /\ pc = "await"
    /\ chan /= <<>>
    /\ BleOnDataReceived
    /\ pc' = IF event' THEN "step" ELSE "await"
    /\ UNCHANGED <<transport, timeout, peerClosed, sockMode, op, elapsed, pulls,
                   timedOut, snap, outcome, result, blocked, unmet, emptyRecv,
                   wire, sent, consumed>>
    /\ UNCHANGED notStream

\* the timeout_at timer fires: __await_read returns False and the `while` is
\* evaluated again
BleTimerFire ==
    /\ BleTimerDue
    /\ pc' = "step"
    /\ UNCHANGED <<transport, timeout, buffer, chan, peerClosed, sockMode, event,
                   op, elapsed, pulls, timedOut, snap, outcome, result, lastPeek,
                   blocked, unmet, emptyRecv, wire, sent, consumed>>
    /\ UNCHANGED notStream

\* callbacks queued while the coroutine was finishing still run before
\* run_until_complete returns
BleLateCallbacks ==
    /\ transport = "ble"
    /\ pc = "finish"
    /\ chan /= <<>>
    /\ BleOnDataReceived
    /\ UNCHANGED <<transport, timeout, peerClosed, sockMode, pc, op, elapsed,
                   pulls, timedOut, snap, outcome, result, blocked, unmet,
                   emptyRecv, wire, sent, consumed>>
    /\ UNCHANGED notStream

\* read: num_bytes = min(num_bytes, len(buffer)); data = buffer[:num_bytes];
\* del buffer[:num_bytes]
BleRead ==
    /\ transport = "ble" /\ op.name = "read"
    /\ LET num_bytes == Min(op.n, Len(buffer))
       IN Returns("bytes", SliceTo(buffer, num_bytes), DelTo(buffer, num_bytes),
                  SliceTo(buffer, num_bytes))

\* a peek that removes what it returns
BlePeekConsumes ==
    /\ transport = "ble" /\ op.name = "peek"
    /\ LET num_bytes == Min(op.n, Len(buffer))
       IN Returns("bytes", SliceTo(buffer, num_bytes), DelTo(buffer, num_bytes), <<>>)

\* peek: num_bytes = min(num_bytes, len(buffer)); return buffer[:num_bytes]
BlePeek ==
    /\ transport = "ble" /\ op.name = "peek"
    /\ LET num_bytes == Min(op.n, Len(buffer))
       IN Returns("bytes", SliceTo(buffer, num_bytes), buffer, <<>>)

\* a read_until that stops where the match begins
BleReadUntilShort ==
    /\ transport = "ble" /\ op.name = "read_until"
    /\ IF Contains(buffer, op.pat)
       THEN LET length == Index(buffer, op.pat)
            IN Returns("bytes", SliceTo(buffer, length), DelTo(buffer, length),
                       SliceTo(buffer, length))
       ELSE Returns("bytes", buffer, <<>>, buffer)

\* read_until: through the end of the first match, else the whole buffer
BleReadUntil ==
    /\ transport = "ble" /\ op.name = "read_until"
    /\ IF Contains(buffer, op.pat)
       THEN LET length == Index(buffer, op.pat) + Len(op.pat)
            IN Returns("bytes", SliceTo(buffer, length), DelTo(buffer, length),
                       SliceTo(buffer, length))
       ELSE Returns("bytes", buffer, <<>>, buffer)

\* peek_until: buffer[:length], length capped at max_length
BlePeekUntil ==
    /\ transport = "ble" /\ op.name = "peek_until"
    /\ LET found  == IF Contains(buffer, op.pat)
                     THEN Index(buffer, op.pat) + Len(op.pat)
                     ELSE Len(buffer)
           length == IF op.hasMax /\ found > op.max THEN op.max ELSE found
       IN Returns("bytes", SliceTo(buffer, length), buffer, <<>>)

\* length: __read_all_data(); return len(buffer)
BleLength ==
    /\ transport = "ble" /\ op.name = "length"
    /\ Returns("size", <<Len(buffer)>>, buffer, <<>>)

\* ------------------------------------------------ open / close / write
\* One handle from its construction on.  A socket handle is given a socket
\* that is not connected yet; a ble handle is given an address, a BLEDevice or
\* a BleakClient, and a BleakClient may be connected already.
IoQuiet ==
    /\ timeout = 1
    /\ chan = <<>>
    /\ peerClosed = FALSE
    /\ sockMode = "blocking"
    /\ event = FALSE
    /\ pc = "idle"
    /\ op = NoOp
    /\ elapsed = 0
    /\ pulls = 0
    /\ timedOut = FALSE
    /\ snap = <<>>
    /\ outcome = "none"
    /\ result = <<>>
    /\ lastPeek = NoPeek
    /\ blocked = FALSE
    /\ unmet = FALSE
    /\ emptyRecv = FALSE
    /\ wire = <<>>
    /\ sent = <<>>
    /\ consumed = <<>>

LifeInit ==
    /\ transport \in {"socket", "ble"}
    /\ buffer = <<>>
    /\ IoQuiet
    /\ opened = FALSE
    /\ sock = "fresh"
    /\ connected \in (IF transport = "ble" THEN BOOLEAN ELSE {FALSE})
    /\ subscribed = FALSE
    /\ max_packet_size = DefaultPacket
    /\ call = NoCall
    /\ prev = NoCall
    /\ everClosed = FALSE
    /\ failedOpen = FALSE
    /\ wpc = "idle"
    /\ wbytes = <<>>
    /\ start_index = 0
    /\ gatt = <<>>
    /\ ScanQuiet

check_open == IF transport = "socket" THEN opened ELSE connected

\* the call returns: it becomes the last call
Returning(rec) ==
    /\ prev' = call
    /\ call' = rec

\* socket.connect on a socket that was never connected succeeds or raises;
\* setblocking / settimeout / connect on a closed or connected one raise
ConnectOutcomes == IF sock = "fresh" THEN BOOLEAN ELSE {FALSE}

\* an except branch that leaves the socket as it is
SocketAfterFailedOpenKept == sock

\* open, except branch: self.socket.close()
SocketAfterFailedOpen == "closed"

\* socket open
SockOpen ==
    /\ transport = "socket"
    /\ wpc = "idle"
    /\ IF opened
       THEN /\ Returning(CallRec("open", "True", TRUE, 0, 0, 0, TRUE, TRUE))
            /\ UNCHANGED <<opened, sock, failedOpen>>
       ELSE \E ok \in ConnectOutcomes :
            LET tried == IF sock = "fresh" THEN 1 ELSE 0 IN
            IF ok
            THEN /\ sock' = "connected"
                 /\ opened' = TRUE
                 /\ Returning(CallRec("open", "True", FALSE, tried, 0, 0, TRUE, TRUE))
                 /\ UNCHANGED failedOpen
            ELSE /\ sock' = SocketAfterFailedOpen
                 /\ failedOpen' = TRUE
                 /\ Returning(CallRec("open", "False", FALSE, tried, 0, 1, TRUE, FALSE))
                 /\ UNCHANGED opened
    /\ UNCHANGED <<transport, buffer, connected, subscribed, max_packet_size,
                   everClosed>>
    /\ UNCHANGED <<writeVars, notLife>>

\* a close that forgets `self._opened = False`
OpenedAfterCloseKept == opened

\* close: `self._opened = False`
OpenedAfterClose == FALSE

\* a close that leaves the socket usable
SocketAfterCloseFresh == "fresh"

\* close: `self.socket.close()`
SocketAfterClose == "closed"

\* socket close
SockClose ==
    /\ transport = "socket"
    /\ wpc = "idle"
    /\ IF ~opened
       THEN /\ Returning(CallRec("close", "None", FALSE, 0, 0, 0, TRUE, TRUE))
            /\ UNCHANGED <<opened, sock, everClosed>>
       ELSE /\ sock' = SocketAfterClose
            /\ opened' = OpenedAfterClose
            /\ everClosed' = TRUE
            /\ Returning(CallRec("close", "None", TRUE, 0, 0, 1, TRUE, TRUE))
    /\ UNCHANGED <<transport, buffer, connected, subscribed, max_packet_size,
                   failedOpen>>
    /\ UNCHANGED <<writeVars, notLife>>

\* ble open: `if self.check_open(): return`, then connect and start_notify
\* inside run_until_complete with no handler around them, then the packet size
BleOpen ==
    /\ transport = "ble"
    /\ wpc = "idle"
    /\ IF connected
       THEN /\ Returning(CallRec("open", "None", TRUE, 0, 0, 0, TRUE, TRUE))
            /\ UNCHANGED <<connected, subscribed, max_packet_size>>
       ELSE \/ \* client.connect() raises
               /\ Returning(CallRec("open", "raised", FALSE, 1, 0, 0, TRUE, FALSE))
               /\ UNCHANGED <<connected, subscribed, max_packet_size>>
            \/ \* connected, client.start_notify() raises
               /\ connected' = TRUE
               /\ Returning(CallRec("open", "raised", FALSE, 1, 1, 0, TRUE, FALSE))
               /\ UNCHANGED <<subscribed, max_packet_size>>
            \/ \* both complete
               /\ connected' = TRUE
               /\ subscribed' = TRUE
               /\ \E mtu \in Mtus : max_packet_size' = mtu - 3
               /\ Returning(CallRec("open", "None", FALSE, 1, 1, 0, TRUE, TRUE))
    /\ UNCHANGED <<transport, buffer, opened, sock, everClosed, failedOpen>>
    /\ UNCHANGED <<writeVars, notLife>>

\* ble close: `if not self.check_open(): return`, disconnect, buffer.clear()
BleClose ==
    /\ transport = "ble"
    /\ wpc = "idle"
    /\ IF ~connected
       THEN /\ Returning(CallRec("close", "None", FALSE, 0, 0, 0, TRUE, TRUE))
            /\ UNCHANGED <<buffer, connected, subscribed, everClosed>>
       ELSE /\ connected' = FALSE
            /\ subscribed' = FALSE
            /\ buffer' = <<>>
            /\ everClosed' = TRUE
            /\ Returning(CallRec("close", "None", TRUE, 0, 0, 1, buffer = <<>>, TRUE))
    /\ UNCHANGED <<transport, opened, sock, max_packet_size, failedOpen>>
    /\ UNCHANGED <<writeVars, notLife>>

\* the ble link is lost: the client reports is_connected false from then on
LinkDrop ==
    /\ transport = "ble"
    /\ connected
    /\ connected' = FALSE
    /\ subscribed' = FALSE
    /\ UNCHANGED <<transport, buffer, opened, sock, max_packet_size, call, prev,
                   everClosed, failedOpen>>
    /\ UNCHANGED <<writeVars, notLife>>

\* a byte of the peer reaches the buffer of the open handle (a pull of the
\* socket, a notification callback of the subscribed ble handle)
LifeReceive ==
    /\ check_open
    /\ transport = "ble" => subscribed
    /\ Len(buffer) < MaxBytes
    /\ \E b \in Bytes : buffer' = Append(buffer, b)
    /\ UNCHANGED <<transport, lifeVars, writeVars, notLife>>

\* the bytes 1, 2, ..., n: every position of the argument is told apart
Ramp(n) == [i \in 1..n |-> i]

\* ble write is called: `start_index = 0`
BleWriteCall ==
    /\ transport = "ble"
    /\ wpc = "idle"
    /\ wpc' = "loop"
    /\ \E n \in 0..MaxWrite : wbytes' = Ramp(n)
    /\ start_index' = 0
    /\ gatt' = <<>>
    /\ Returning(CallRec("write", "running", connected, 0, 0, 0, TRUE, TRUE))
    /\ UNCHANGED <<transport, buffer, opened, sock, connected, subscribed,
                   max_packet_size, everClosed, failedOpen, notLife>>

\* a loop body that starts the next chunk one byte late
NextStartSkips(end_index) == end_index + 1

\* `start_index = end_index`
NextStart(end_index) == end_index

\* ble write, one turn of `while start_index < len(bytes)`: the chunk
\* bytes[start_index:end_index] goes out in one write_gatt_char, which raises
\* when the client is not connected
BleWriteStep ==
    /\ transport = "ble"
    /\ wpc = "loop"
    /\ IF start_index < Len(wbytes)
       THEN LET end_index == Min(Len(wbytes), start_index + max_packet_size) IN
            IF connected
            THEN /\ gatt' = Append(gatt, SubSeq(wbytes, start_index + 1, end_index))
                 /\ start_index' = NextStart(end_index)
                 /\ UNCHANGED <<call, wpc>>
            ELSE /\ wpc' = "idle"
                 /\ call' = [call EXCEPT !.ret = "raised"]
                 /\ UNCHANGED <<start_index, gatt>>
       ELSE /\ wpc' = "idle"
            /\ call' = [call EXCEPT !.ret = "None"]
            /\ UNCHANGED <<start_index, gatt>>
    /\ UNCHANGED <<transport, buffer, opened, sock, connected, subscribed,
                   max_packet_size, prev, everClosed, failedOpen, wbytes, notLife>>

LifeNext ==
    \/ SockOpen \/ SockClose \/ BleOpen \/ BleClose \/ LinkDrop \/ LifeReceive

LifeSpec == LifeInit /\ [][LifeNext]_vars

\* a ble handle that is opened and written to
WriteInit == LifeInit /\ transport = "ble"

WriteNext == BleOpen \/ LinkDrop \/ BleWriteCall \/ BleWriteStep

WriteSpec == WriteInit /\ [][WriteNext]_vars

\* ------------------------------------------------- ble device discovery
\* update_nearby_devices with SCANNER_CONTINOUS false.  The class attributes
\* are set before the call; no handle is involved.
ScanInit ==
    /\ transport = "ble"
    /\ buffer = <<>>
    /\ IoQuiet
    /\ opened = FALSE
    /\ sock = "fresh"
    /\ connected = FALSE
    /\ subscribed = FALSE
    /\ max_packet_size = DefaultPacket
    /\ call = NoCall
    /\ prev = NoCall
    /\ everClosed = FALSE
    /\ failedOpen = FALSE
    /\ wpc = "idle"
    /\ wbytes = <<>>
    /\ start_index = 0
    /\ gatt = <<>>
    /\ SCANNER_TIMEOUT \in ScanTimeouts
    /\ SCANNER_FIND_COUNT \in FindCounts
    /\ scanning = FALSE
    /\ discovered_devices = <<>>
    /\ queued = {}
    /\ scanPc = "idle"
    /\ now = 0
    /\ start_time = 0
    /\ SCANNER_CONTINOUS = FALSE
    /\ SCANNER_EXPIRATION_TIME \in Expirations
    /\ scanResult = NoResult
    /\ heard = {}
    /\ refreshed = {}
    /\ BLUETOOTH_AVAILABLE = TRUE
    /\ BtQuiet

\* `x or float('inf')`: None and 0 are both falsy and give no limit (None)
OrInf(x) == IF x = None \/ x = <<0>> THEN None ELSE x

\* a < limit, where the limit None is float('inf')
Below(a, limit) == limit = None \/ a < limit[1]

\* time.time() - start_time
ScanElapsed == now - start_time

\* the `while` condition of the one-shot scan
ScanCondition ==
    /\ Below(ScanElapsed, OrInf(SCANNER_TIMEOUT))
    /\ Below(Cardinality(DOMAIN discovered_devices), OrInf(SCANNER_FIND_COUNT))

\* callbacks that add a new address and leave an entry that exists as it is
DeliveredStale ==
    [a \in (DOMAIN discovered_devices) \cup queued |->
        IF a \in DOMAIN discovered_devices THEN discovered_devices[a] ELSE now]

\* the callbacks queued on the scanner loop run: __detection_callback stores
\* the device under its address with last_found = time.time()
Delivered ==
    [a \in (DOMAIN discovered_devices) \cup queued |->
        IF a \in queued THEN now ELSE discovered_devices[a]]

\* the entries the callbacks that run now overwrite
Overwritten == queued \cap DOMAIN discovered_devices

\* a one-shot scan that starts without emptying the map
AfterClearKept == discovered_devices

\* `cls.discovered_devices.clear()`
AfterClear == <<>>

\* update_nearby_devices, SCANNER_CONTINOUS false, up to the loop: clear,
\* start_time, SCANNER.start()
ScanCall ==
    /\ scanPc = "idle"
    /\ ~SCANNER_CONTINOUS
    /\ discovered_devices' = AfterClear
    /\ start_time' = now
    /\ scanning' = TRUE
    /\ scanPc' = "check"
    /\ heard' = {}
    /\ UNCHANGED <<SCANNER_TIMEOUT, SCANNER_FIND_COUNT, queued, now, notScan>>
    /\ UNCHANGED <<SCANNER_CONTINOUS, SCANNER_EXPIRATION_TIME, scanResult,
                   refreshed>>

\* the scanner hears a sensor advertise and queues the detection callback
Detect ==
    /\ scanning
    /\ \E a \in Addresses : queued' = queued \cup {a} /\ heard' = heard \cup {a}
    /\ UNCHANGED <<SCANNER_TIMEOUT, SCANNER_FIND_COUNT, scanning,
                   discovered_devices, scanPc, now, start_time, notScan>>
    /\ UNCHANGED <<SCANNER_CONTINOUS, SCANNER_EXPIRATION_TIME, scanResult,
                   refreshed>>

\* time passes before the loop reads time.time()
ScanTick ==
    /\ scanPc = "check"
    /\ now < MaxNow
    /\ now' = now + 1
    /\ UNCHANGED <<SCANNER_TIMEOUT, SCANNER_FIND_COUNT, scanning,
                   discovered_devices, queued, scanPc, start_time, notScan>>
    /\ UNCHANGED discVars

\* `while time.time() - start_time < end_time and len(...) < end_count:`
ScanCheck ==
    /\ scanPc = "check"
    /\ scanPc' = IF ScanCondition THEN "run" ELSE "stop"
    /\ UNCHANGED <<SCANNER_TIMEOUT, SCANNER_FIND_COUNT, scanning,
                   discovered_devices, queued, now, start_time, notScan>>
    /\ UNCHANGED discVars

\* loop body: run_until_complete(__wait_for_callbacks_async())
ScanRun ==
    /\ scanPc = "run"
    /\ discovered_devices' = Delivered
    /\ queued' = {}
    /\ scanPc' = "check"
    /\ refreshed' = Overwritten
    /\ UNCHANGED <<SCANNER_TIMEOUT, SCANNER_FIND_COUNT, scanning, now,
                   start_time, notScan>>
    /\ UNCHANGED <<SCANNER_CONTINOUS, SCANNER_EXPIRATION_TIME, scanResult, heard>>

\* run_until_complete(SCANNER.stop()): the callbacks still queued run first
ScanStop ==
    /\ scanPc = "stop"
    /\ discovered_devices' = Delivered
    /\ queued' = {}
    /\ scanning' = FALSE
    /\ scanPc' = "done"
    /\ refreshed' = Overwritten
    /\ UNCHANGED <<SCANNER_TIMEOUT, SCANNER_FIND_COUNT, now, start_time, notScan>>
    /\ UNCHANGED <<SCANNER_CONTINOUS, SCANNER_EXPIRATION_TIME, scanResult, heard>>

\* `return cls.discovered_devices`
ScanReturn ==
    /\ scanPc = "done"
    /\ scanPc' = "idle"
    /\ scanResult' = ResultRec("update", FALSE, now, discovered_devices,
                               discovered_devices)
    /\ UNCHANGED <<SCANNER_TIMEOUT, SCANNER_FIND_COUNT, scanning,
                   discovered_devices, queued, now, start_time, notScan>>
    /\ UNCHANGED <<SCANNER_CONTINOUS, SCANNER_EXPIRATION_TIME, heard, refreshed>>

ScanNext ==
    \/ ScanCall \/ Detect \/ ScanTick \/ ScanCheck \/ ScanRun \/ ScanStop
    \/ ScanReturn

ScanSpec == ScanInit /\ [][ScanNext]_vars

\* ---------------------------------- ble discovery, one-shot and continuous
\* The scanner with its default limits, switched between the two modes.
DiscInit ==
    /\ ScanInit
    /\ SCANNER_TIMEOUT = <<1>>
    /\ SCANNER_FIND_COUNT \in {None, <<1>>}

\* set_scanner_continous: the flag, then SCANNER.start() or SCANNER.stop()
\* inside run_until_complete, where the callbacks that are queued run
SetContinuous ==
    /\ scanPc = "idle"
    /\ \E c \in BOOLEAN :
        /\ SCANNER_CONTINOUS' = c
        /\ scanning' = c
    /\ discovered_devices' = Delivered
    /\ queued' = {}
    /\ refreshed' = Overwritten
    /\ UNCHANGED <<SCANNER_TIMEOUT, SCANNER_FIND_COUNT, scanPc, now, start_time,
                   notScan>>
    /\ UNCHANGED <<SCANNER_EXPIRATION_TIME, scanResult, heard>>

\* an expiry test that also drops an entry as old as the window
ExpiredAtWindow(m, a) == now - m[a] >= SCANNER_EXPIRATION_TIME

\* `cur_time - last_found > cls.SCANNER_EXPIRATION_TIME`
Expired(m, a) == now - m[a] > SCANNER_EXPIRATION_TIME

\* the map without its expired entries
Unexpired(m) == [a \in {b \in DOMAIN m : ~Expired(m, b)} |-> m[a]]

\* update_nearby_devices, SCANNER_CONTINOUS true: the queued callbacks run,
\* the expired entries are deleted, the map is returned
ContUpdate ==
    /\ scanPc = "idle"
    /\ SCANNER_CONTINOUS
    /\ discovered_devices' = Unexpired(Delivered)
    /\ queued' = {}
    /\ refreshed' = Overwritten
    /\ scanResult' = ResultRec("update", TRUE, now, Delivered, Unexpired(Delivered))
    /\ UNCHANGED <<SCANNER_TIMEOUT, SCANNER_FIND_COUNT, scanning, scanPc, now,
                   start_time, notScan>>
    /\ UNCHANGED <<SCANNER_CONTINOUS, SCANNER_EXPIRATION_TIME, heard>>

\* get_discovered_nearby_devices: `return cls.discovered_devices.copy()`
GetDiscovered ==
    /\ scanPc = "idle"
    /\ scanResult' = ResultRec("get", SCANNER_CONTINOUS, now, discovered_devices,
                               discovered_devices)
    /\ UNCHANGED <<scanVars, notScan>>
    /\ UNCHANGED <<SCANNER_CONTINOUS, SCANNER_EXPIRATION_TIME, heard, refreshed>>

\* time passes between two calls
IdleTick ==
    /\ scanPc = "idle"
    /\ now < MaxNow
    /\ now' = now + 1
    /\ UNCHANGED <<SCANNER_TIMEOUT, SCANNER_FIND_COUNT, scanning,
                   discovered_devices, queued, scanPc, start_time, notScan>>
    /\ UNCHANGED discVars

DiscNext ==
    \/ ScanCall \/ Detect \/ ScanTick \/ ScanCheck \/ ScanRun \/ ScanStop
    \/ ScanReturn
    \/ SetContinuous \/ ContUpdate \/ GetDiscovered \/ IdleTick

DiscSpec == DiscInit /\ [][DiscNext]_vars

\* ------------------------------------------- Bluetooth Classic scanner
\* ThreespaceBluetoothComClass.SCANNER, the threads that run Scanner.process
\* and one foreground caller.  Every read or write of a Scanner attribute is a
\* step of its own, so the two sides interleave as the threads of the
\* interpreter do.
BtInit ==
    /\ transport = "socket"
    /\ buffer = <<>>
    /\ IoQuiet
    /\ opened = FALSE
    /\ sock = "fresh"
    /\ connected = FALSE
    /\ subscribed = FALSE
    /\ max_packet_size = DefaultPacket
    /\ call = NoCall
    /\ prev = NoCall
    /\ everClosed = FALSE
    /\ failedOpen = FALSE
    /\ wpc = "idle"
    /\ wbytes = <<>>
    /\ start_index = 0
    /\ gatt = <<>>
    /\ BleQuiet
    /\ BLUETOOTH_AVAILABLE \in BOOLEAN
    /\ BtQuiet

\* a snapshot object: `given` remembers that get_most_recent returned it
Snapshot(g) == <<[given |-> g]>>

\* the positions of a thread that has been started and has not finished
Alive == {"p0", "while", "if", "inquiry", "store", "exec", "upd", "end"}

\* the positions inside `while self.enabled:`
InLoop == {"while", "if", "inquiry", "store", "exec", "upd"}

\* the positions from the start of an inquiry to `self.updated = True`
InFlight == {"inquiry", "store", "exec", "upd"}

Spawned == Cardinality({i \in 1..MaxThreads : tpc[i] /= "unborn"})

\* process: `if not BLUETOOTH_AVAILABLE: raise ImportError(...)`; the
\* exception ends the thread, it reaches no caller
ThreadEnter(i) ==
    /\ tpc[i] = "p0"
    /\ tpc' = [tpc EXCEPT ![i] = IF BLUETOOTH_AVAILABLE THEN "while" ELSE "dead"]
    /\ UNCHANGED <<BLUETOOTH_AVAILABLE, scannerMade, enabled, done, continous,
                   execute, updated, nearby, fpc, fret, farg, fout, sinceStop,
                   notBt>>

\* a loop test that goes on while the scanner is in continuous mode
WhileTestSticky == enabled \/ continous

\* `while self.enabled:`
WhileTest == enabled

ThreadWhile(i) ==
    /\ tpc[i] = "while"
    /\ tpc' = [tpc EXCEPT ![i] = IF WhileTest THEN "if" ELSE "end"]
    /\ UNCHANGED <<BLUETOOTH_AVAILABLE, scannerMade, enabled, done, continous,
                   execute, updated, nearby, fpc, fret, farg, fout, sinceStop,
                   notBt>>

\* `if not self.continous and not self.execute: continue`, else the inquiry
\* bluetooth.discover_devices(...) begins
ThreadIf(i) ==
    /\ tpc[i] = "if"
    /\ IF ~continous /\ ~execute
       THEN /\ tpc' = [tpc EXCEPT ![i] = "while"]
            /\ UNCHANGED sinceStop
       ELSE /\ tpc' = [tpc EXCEPT ![i] = "inquiry"]
            /\ sinceStop' = IF enabled THEN 0 ELSE Min(sinceStop + 1, 2)
    /\ UNCHANGED <<BLUETOOTH_AVAILABLE, scannerMade, enabled, done, continous,
                   execute, updated, nearby, fpc, fret, farg, fout, notBt>>

\* discover_devices returns
ThreadInquiry(i) ==
    /\ tpc[i] = "inquiry"
    /\ tpc' = [tpc EXCEPT ![i] = "store"]
    /\ UNCHANGED <<BLUETOOTH_AVAILABLE, scannerMade, enabled, done, continous,
                   execute, updated, nearby, fpc, fret, farg, fout, sinceStop,
                   notBt>>

\* `self.nearby = [ScannerResult(...) ...]`: a new list
ThreadStore(i) ==
    /\ tpc[i] = "store"
    /\ nearby' = Snapshot(FALSE)
    /\ tpc' = [tpc EXCEPT ![i] = "exec"]
    /\ UNCHANGED <<BLUETOOTH_AVAILABLE, scannerMade, enabled, done, continous,
                   execute, updated, fpc, fret, farg, fout, sinceStop, notBt>>

\* `self.execute = False`
ThreadExecute(i) ==
    /\ tpc[i] = "exec"
    /\ execute' = FALSE
    /\ tpc' = [tpc EXCEPT ![i] = "upd"]
    /\ UNCHANGED <<BLUETOOTH_AVAILABLE, scannerMade, enabled, done, continous,
                   updated, nearby, fpc, fret, farg, fout, sinceStop, notBt>>

\* `self.updated = True`
ThreadUpdated(i) ==
    /\ tpc[i] = "upd"
    /\ updated' = TRUE
    /\ tpc' = [tpc EXCEPT ![i] = "while"]
    /\ UNCHANGED <<BLUETOOTH_AVAILABLE, scannerMade, enabled, done, continous,
                   execute, nearby, fpc, fret, farg, fout, sinceStop, notBt>>

\* `self.done = True`, the last statement of process
ThreadEnd(i) ==
    /\ tpc[i] = "end"
    /\ done' = TRUE
    /\ tpc' = [tpc EXCEPT ![i] = "finished"]
    /\ UNCHANGED <<BLUETOOTH_AVAILABLE, scannerMade, enabled, continous, execute,
                   updated, nearby, fpc, fret, farg, fout, sinceStop, notBt>>

ThreadStep(i) ==
    \/ ThreadEnter(i) \/ ThreadWhile(i) \/ ThreadIf(i) \/ ThreadInquiry(i)
    \/ ThreadStore(i) \/ ThreadExecute(i) \/ ThreadUpdated(i) \/ ThreadEnd(i)

Thread == \E i \in 1..MaxThreads : ThreadStep(i)

\* the foreground caller moves to position p, going on at r after a start()
Goto(p, r) == fpc' = p /\ fret' = r

\* __lazy_init_scanner: `if cls.SCANNER is None: cls.SCANNER = Scanner();
\* cls.SCANNER.start()`, then the caller goes on at position p
LazyInit(p) ==
    IF scannerMade
    THEN /\ Goto(p, "idle")
         /\ UNCHANGED scannerMade
    ELSE /\ scannerMade' = TRUE
         /\ Goto("st_check", p)

\* the foreground caller calls Scanner.start()
FgStart ==
    /\ fpc = "idle"
    /\ scannerMade
    /\ Goto("st_check", "idle")
    /\ fout' = "none"
    /\ UNCHANGED <<BLUETOOTH_AVAILABLE, scannerMade, enabled, done, continous,
                   execute, updated, nearby, tpc, farg, sinceStop, notBt>>

\* what the caller has once start() is left: a start() the caller made itself
\* has returned, a start() made inside another call goes on in that call
Started == IF fret = "idle" THEN "started" ELSE fout

\* a start() that takes the scanner for busy while it is enabled
StartBusyEnabled == enabled

\* start: `if not self.done:`
StartBusy == ~done

StartCheck ==
    /\ fpc = "st_check"
    /\ fpc' = IF StartBusy THEN "st_exec" ELSE "st_en"
    /\ UNCHANGED <<BLUETOOTH_AVAILABLE, scannerMade, enabled, done, continous,
                   execute, updated, nearby, tpc, fret, farg, fout, sinceStop,
                   notBt>>

\* start: `self.execute = True; return`
StartExecute ==
    /\ fpc = "st_exec"
    /\ execute' = TRUE
    /\ Goto(fret, "idle")
    /\ fout' = Started
    /\ UNCHANGED <<BLUETOOTH_AVAILABLE, scannerMade, enabled, done, continous,
                   updated, nearby, tpc, farg, sinceStop, notBt>>

\* start: `self.thread = threading.Thread(...); self.enabled = True`
StartEnabled ==
    /\ fpc = "st_en"
    /\ enabled' = TRUE
    /\ sinceStop' = 0
    /\ fpc' = "st_dn"
    /\ UNCHANGED <<BLUETOOTH_AVAILABLE, scannerMade, done, continous, execute,
                   updated, nearby, tpc, fret, farg, fout, notBt>>

\* start: `self.done = False`
StartDone ==
    /\ fpc = "st_dn"
    /\ done' = FALSE
    /\ fpc' = "st_up"
    /\ UNCHANGED <<BLUETOOTH_AVAILABLE, scannerMade, enabled, continous, execute,
                   updated, nearby, tpc, fret, farg, fout, sinceStop, notBt>>

\* start: `self.updated = False`
StartUpdated ==
    /\ fpc = "st_up"
    /\ updated' = FALSE
    /\ fpc' = "st_go"
    /\ UNCHANGED <<BLUETOOTH_AVAILABLE, scannerMade, enabled, done, continous,
                   execute, nearby, tpc, fret, farg, fout, sinceStop, notBt>>

\* start: `self.thread.start()`
StartThread ==
    /\ fpc = "st_go"
    /\ Spawned < MaxThreads
    /\ tpc' = [tpc EXCEPT ![Spawned + 1] = "p0"]
    /\ Goto(fret, "idle")
    /\ fout' = Started
    /\ UNCHANGED <<BLUETOOTH_AVAILABLE, scannerMade, enabled, done, continous,
                   execute, updated, nearby, farg, sinceStop, notBt>>

\* stop: `self.enabled = False`
FgStop ==
    /\ fpc = "idle"
    /\ scannerMade
    /\ enabled' = FALSE
    /\ sinceStop' = IF enabled THEN 0 ELSE sinceStop
    /\ fout' = "none"
    /\ UNCHANGED <<BLUETOOTH_AVAILABLE, scannerMade, done, continous, execute,
                   updated, nearby, tpc, fpc, fret, farg, notBt>>

\* set_scanner_continous(continous): __lazy_init_scanner() first
FgSetContinous ==
    /\ fpc = "idle"
    /\ farg' \in BOOLEAN
    /\ LazyInit("sc_set")
    /\ fout' = "none"
    /\ UNCHANGED <<BLUETOOTH_AVAILABLE, enabled, done, continous, execute,
                   updated, nearby, tpc, sinceStop, notBt>>

\* Scanner.set_continous: `self.continous = continous`
SetContinous ==
    /\ fpc = "sc_set"
    /\ continous' = farg
    /\ Goto("idle", "idle")
    /\ UNCHANGED <<BLUETOOTH_AVAILABLE, scannerMade, enabled, done, execute,
                   updated, nearby, tpc, farg, fout, sinceStop, notBt>>

\* the foreground caller calls Scanner.get_most_recent()
FgGetMostRecent ==
    /\ fpc = "idle"
    /\ scannerMade
    /\ Goto("g_check", "idle")
    /\ fout' = "none"
    /\ UNCHANGED <<BLUETOOTH_AVAILABLE, scannerMade, enabled, done, continous,
                   execute, updated, nearby, tpc, farg, sinceStop, notBt>>

\* get_most_recent: `if not self.updated: return None`
GetCheck ==
    /\ fpc = "g_check"
    /\ IF ~updated
       THEN fpc' = "idle" /\ fout' = "None"
       ELSE fpc' = "g_clear" /\ UNCHANGED fout
    /\ UNCHANGED <<BLUETOOTH_AVAILABLE, scannerMade, enabled, done, continous,
                   execute, updated, nearby, tpc, fret, farg, sinceStop, notBt>>

\* get_most_recent: `self.updated = False`
GetClear ==
    /\ fpc = "g_clear"
    /\ updated' = FALSE
    /\ fpc' = "g_ret"
    /\ UNCHANGED <<BLUETOOTH_AVAILABLE, scannerMade, enabled, done, continous,
                   execute, nearby, tpc, fret, farg, fout, sinceStop, notBt>>

\* get_most_recent: `return self.nearby`
GetReturn ==
    /\ fpc = "g_ret"
    /\ fout' = IF nearby = None THEN "None"
               ELSE IF nearby[1].given THEN "again" ELSE "snapshot"
    /\ nearby' = IF nearby = None THEN None ELSE Snapshot(TRUE)
    /\ fpc' = "idle"
    /\ UNCHANGED <<BLUETOOTH_AVAILABLE, scannerMade, enabled, done, continous,
                   execute, updated, tpc, fret, farg, sinceStop, notBt>>

\* auto_detect(wait_for_update): __lazy_init_scanner() first
FgAutoDetect ==
    /\ fpc = "idle"
    /\ farg' \in BOOLEAN
    /\ LazyInit("ad_start")
    /\ fout' = "none"
    /\ UNCHANGED <<BLUETOOTH_AVAILABLE, enabled, done, continous, execute,
                   updated, nearby, tpc, sinceStop, notBt>>

\* auto_detect: `cls.SCANNER.start()`
AutoStart ==
    /\ fpc = "ad_start"
    /\ Goto("st_check", "ad_after")
    /\ UNCHANGED <<BLUETOOTH_AVAILABLE, scannerMade, enabled, done, continous,
                   execute, updated, nearby, tpc, farg, fout, sinceStop, notBt>>

\* auto_detect: `if wait_for_update: cls.SCANNER.updated = False`
AutoClear ==
    /\ fpc = "ad_after"
    /\ IF farg
       THEN updated' = FALSE /\ fpc' = "ad_wait"
       ELSE fpc' = "ad_read" /\ UNCHANGED updated
    /\ UNCHANGED <<BLUETOOTH_AVAILABLE, scannerMade, enabled, done, continous,
                   execute, nearby, tpc, fret, farg, fout, sinceStop, notBt>>

\* auto_detect: `while not cls.SCANNER.updated: time.sleep(0.1)` is left
AutoWait ==
    /\ fpc = "ad_wait"
    /\ updated
    /\ fpc' = "ad_read"
    /\ UNCHANGED <<BLUETOOTH_AVAILABLE, scannerMade, enabled, done, continous,
                   execute, updated, nearby, tpc, fret, farg, fout, sinceStop,
                   notBt>>

\* auto_detect: `if cls.SCANNER.nearby is None: return`, else the handles of
\* the entries that pass the filter are yielded
AutoRead ==
    /\ fpc = "ad_read"
    /\ fout' = IF nearby = None THEN "empty" ELSE "handles"
    /\ fpc' = "idle"
    /\ UNCHANGED <<BLUETOOTH_AVAILABLE, scannerMade, enabled, done, continous,
                   execute, updated, nearby, tpc, fret, farg, sinceStop, notBt>>

\* ThreespaceBluetoothComClass(addr): `if not BLUETOOTH_AVAILABLE: raise
\* ImportError(...)`
FgConstruct ==
    /\ fpc = "idle"
    /\ fout' = IF BLUETOOTH_AVAILABLE THEN "handle" ELSE "ImportError"
    /\ UNCHANGED <<BLUETOOTH_AVAILABLE, scannerMade, enabled, done, continous,
                   execute, updated, nearby, tpc, fpc, fret, farg, sinceStop,
                   notBt>>

BtNext ==
    \/ Thread
    \/ FgStart \/ StartCheck \/ StartExecute \/ StartEnabled \/ StartDone
    \/ StartUpdated \/ StartThread
    \/ FgStop \/ FgSetContinous \/ SetContinous
    \/ FgGetMostRecent \/ GetCheck \/ GetClear \/ GetReturn
    \/ FgAutoDetect \/ AutoStart \/ AutoClear \/ AutoWait \/ AutoRead
    \/ FgConstruct

BtSpec == BtInit /\ [][BtNext]_vars

\* the interpreter schedules every thread that can run
BtFairSpec == BtSpec /\ \A i \in 1..MaxThreads : WF_vars(ThreadStep(i))

\* C24: at most one Scanner.process thread is alive at any time: start()
\* never spawns a second thread while an earlier one has not finished
AtMostOneThread ==
    Cardinality({i \in 1..MaxThreads : tpc[i] \in Alive}) <= 1

\* a second thread runs after the first one has finished
AtMostOneThreadWitness ==
    /\ tpc[1] = "finished"
    /\ tpc[2] \in InLoop

\* C25: get_most_recent consumes a snapshot atomically: the result of one
\* completed inquiry is returned by at most one call, and a call made when no
\* inquiry has completed since the previous successful call returns None
GetMostRecentConsumes == fout /= "again"

\* C26: in run-once mode every scan request is served: while
\* auto_detect(wait_for_update=True) waits for a result that is not there yet,
\* with the scan loop enabled and no inquiry in flight, its request is still
\* pending (execute is set), so that a fairly scheduled loop begins the
\* inquiry that ends the wait
AutoDetectServed ==
    ( /\ fpc = "ad_wait"
      /\ ~updated
      /\ ~continous
      /\ enabled
      /\ \E i \in 1..MaxThreads : tpc[i] \in {"while", "if"} )
    => execute

\* C27: cooperative cancellation: after stop() has set enabled to false the
\* loop begins no new inquiry (sinceStop counts the inquiries begun while
\* enabled is false)
NoInquiryAfterStop == sinceStop = 0

\* C27, liveness: a fairly scheduled loop that has been stopped finishes and
\* sets done
StoppedLoopFinishes ==
    (~enabled /\ \E i \in 1..MaxThreads : tpc[i] \in InLoop) ~> done

\* C27, as the code has it: after stop() the loop begins at most one more
\* inquiry, that of the iteration which had passed `while self.enabled`
\* before stop() was called, and a fairly scheduled loop then finishes and
\* sets done
CancelWithinOneCycle == [](sinceStop <= 1) /\ StoppedLoopFinishes

\* stop() was called between the loop test and the inquiry; the loop ran that
\* one inquiry and finished
CancelWithinOneCycleWitness ==
    /\ ~enabled
    /\ done
    /\ sinceStop = 1
    /\ tpc[1] = "finished"

\* C28: when the Bluetooth Classic library is absent every use of the backend
\* delivers an ImportError to the caller: the constructor yields no handle,
\* auto_detect does not return as if nothing was found, and it does not wait
\* for a result with no scan thread left to produce one
LibraryAbsentReported ==
    ~BLUETOOTH_AVAILABLE =>
        /\ fout \notin {"handle", "handles", "empty"}
        /\ ~( /\ fpc = "ad_wait"
              /\ ~updated
              /\ \A i \in 1..MaxThreads : tpc[i] \notin Alive )

\* ------------------------------------------------------------ auto_detect
\* The auto_detect generators of both backends.  The scan thread of the
\* Bluetooth Classic scanner runs one inquiry cycle in one step here; its
\* interleavings are those of BtSpec.

\* what an inquiry can find: (address, name, class of device)
Found ==
    { [address |-> "a1", name |-> "n", cod |-> 1792],
      [address |-> "a2", name |-> "", cod |-> 1796],
      [address |-> "a3", name |-> "", cod |-> 2098944],
      [address |-> "a4", name |-> "n", cod |-> 260],
      [address |-> "a5", name |-> "", cod |-> 7936] }

\* the results of an inquiry: lists of at most MaxFound devices
Inquiries == UNION {[1..n -> Found] : n \in 0..MaxFound}

\* the filter argument: none given, or `lambda result: True`
Filters == {"default", "any"}

\* major_classes.get(major_class, "Unknown")
MajorName(m) ==
    CASE m = 0 -> "Miscellaneous"
      [] m = 1 -> "Computer"
      [] m = 2 -> "Phone"
      [] m = 3 -> "LAN/Network Access Point"
      [] m = 4 -> "Audio/Video"
      [] m = 5 -> "Peripheral"
      [] m = 6 -> "Imaging"
      [] m = 7 -> "Wearable"
      [] m = 8 -> "Toy"
      [] m = 9 -> "Health"
      [] m = 31 -> "Uncategorized"
      [] OTHER -> "Unknown"

\* minor_classes.get(major_class, {}).get(minor_class, f"Minor code {n}");
\* the formatted string is the pair <<"Minor code", n>>
MinorName(m, n) ==
    CASE m \in {1, 2, 5} /\ n = 0 -> "Uncategorized"
      [] m = 1 /\ n = 1 -> "Desktop workstation"
      [] m = 1 /\ n = 2 -> "Server-class computer"
      [] m = 1 /\ n = 3 -> "Laptop"
      [] m = 1 /\ n = 4 -> "Handheld PC/PDA"
      [] m = 1 /\ n = 5 -> "Palm-size PC/PDA"
      [] m = 2 /\ n = 1 -> "Cellular"
      [] m = 2 /\ n = 2 -> "Cordless"
      [] m = 2 /\ n = 3 -> "Smartphone"
      [] m = 2 /\ n = 4 -> "Wired modem or voice gateway"
      [] m = 2 /\ n = 5 -> "Common ISDN access"
      [] m = 5 /\ n = 1 -> "Keyboard"
      [] m = 5 /\ n = 2 -> "Pointing device"
      [] m = 5 /\ n = 3 -> "Combo keyboard/pointing device"
      [] OTHER -> <<"Minor code", n>>

\* decode_class_of_device: major_class = (cod >> 8) & 0x1F,
\* minor_class = (cod >> 2) & 0x3F; the service names play no part in discovery
decode_class_of_device(cod) ==
    [raw |-> cod,
     major_class |-> MajorName((cod \div 256) % 32),
     minor_class |-> MinorName((cod \div 256) % 32, (cod \div 4) % 64)]

\* a default filter that looks at the major class alone
default_filter_major(r) ==
    decode_class_of_device(r.cod).major_class = "Wearable"

\* __default_filter
default_filter(r) ==
    /\ decode_class_of_device(r.cod).major_class = "Wearable"
    /\ decode_class_of_device(r.cod).minor_class = <<"Minor code", 0>>

\* filter(device_info)
Passes(f, r) == IF f = "default" THEN default_filter(r) ELSE TRUE

\* a constructor that connects
NewHandleConnected(a, n) ==
    [address |-> a, name |-> n, opened |-> TRUE, connects |-> 1]

\* a handle as its constructor leaves it: ThreespaceSocketComClass.__init__
\* sets _opened = False, ThreespaceBLEComClass.__init__ wraps the device in a
\* BleakClient; neither connects
NewHandle(a, n) ==
    [address |-> a, name |-> n, opened |-> FALSE, connects |-> 0]

\* the orders in which a dict of the addresses S can hold them
Orderings(S) ==
    {o \in [1..Cardinality(S) -> S] : \A i, j \in DOMAIN o : o[i] = o[j] => i = j}

AutoInit ==
    /\ transport = "socket"
    /\ buffer = <<>>
    /\ IoQuiet
    /\ opened = FALSE
    /\ sock = "fresh"
    /\ connected = FALSE
    /\ subscribed = FALSE
    /\ max_packet_size = DefaultPacket
    /\ call = NoCall
    /\ prev = NoCall
    /\ everClosed = FALSE
    /\ failedOpen = FALSE
    /\ wpc = "idle"
    /\ wbytes = <<>>
    /\ start_index = 0
    /\ gatt = <<>>
    /\ BleQuiet
    /\ BLUETOOTH_AVAILABLE \in BOOLEAN
    /\ BtQuiet

\* ThreespaceBluetoothComClass.auto_detect(wait_for_update, filter) up to its
\* wait: __lazy_init_scanner() makes and starts the scanner on the first call
\* (the thread dies at once when the library is absent), start() then asks for
\* an inquiry, and with wait_for_update the flag `updated` is cleared
ClassicAutoDetect ==
    /\ apc = "idle"
    /\ \E w \in BOOLEAN, f \in Filters :
        /\ farg' = w
        /\ filter' = f
        /\ updated' = IF w THEN FALSE ELSE updated
        /\ apc' = IF w THEN "wait" ELSE "read"
    /\ backend' = "classic"
    /\ scannerMade' = TRUE
    /\ enabled' = TRUE
    /\ done' = FALSE
    /\ execute' = TRUE
    /\ tpc' = IF scannerMade THEN tpc
              ELSE [tpc EXCEPT ![1] = IF BLUETOOTH_AVAILABLE THEN "while" ELSE "dead"]
    /\ source' = <<>>
    /\ idx' = 0
    /\ yielded' = <<>>
    /\ araised' = FALSE
    /\ UNCHANGED <<BLUETOOTH_AVAILABLE, continous, nearby, fpc, fret, fout,
                   sinceStop, scanVars, discVars, notAuto>>
    /\ UNCHANGED held

\* a store that writes the result into the list `nearby` names already
AfterStoreInPlace(h) == h

\* `self.nearby = [...]` binds the attribute to a new list: a list the caller
\* holds is the scanner's no longer
AfterStore(h) == [h EXCEPT !.shared = FALSE]

\* one cycle of Scanner.process: an inquiry that was asked for runs, its
\* result replaces `nearby`, `execute` is cleared and `updated` set
Inquire ==
    /\ tpc[1] = "while"
    /\ enabled
    /\ continous \/ execute
    /\ nearby' \in Inquiries
    /\ execute' = FALSE
    /\ updated' = TRUE
    /\ UNCHANGED <<BLUETOOTH_AVAILABLE, scannerMade, enabled, done, continous,
                   tpc, fpc, fret, farg, fout, sinceStop, autoVars, scanVars,
                   discVars, notAuto>>
    /\ held' = AfterStore(held)

\* auto_detect: `while not cls.SCANNER.updated` ends
ClassicWait ==
    /\ apc = "wait"
    /\ updated
    /\ apc' = "read"
    /\ UNCHANGED <<backend, filter, source, idx, yielded, araised, btVars,
                   scanVars, discVars, notAuto>>
    /\ UNCHANGED held

\* auto_detect: `if cls.SCANNER.nearby is None: return`, else the list that
\* `nearby` names now is the one the for loop iterates
ClassicRead ==
    /\ apc = "read"
    /\ IF nearby = None
       THEN apc' = "done" /\ UNCHANGED <<source, idx>>
       ELSE apc' = "loop" /\ source' = nearby /\ idx' = 1
    /\ UNCHANGED <<backend, filter, yielded, araised, btVars, scanVars, discVars,
                   notAuto>>
    /\ UNCHANGED held

\* auto_detect: one turn of `for device_info in cls.SCANNER.nearby`:
\* `if not filter(device_info): continue`, `name = device_info.name or None`,
\* `yield ThreespaceBluetoothComClass(device_info.address, name)`, whose
\* constructor raises ImportError without the library and keeps
\* `name or addr` as its name
ClassicYield ==
    /\ backend = "classic"
    /\ apc = "loop"
    /\ IF idx > Len(source)
       THEN apc' = "done" /\ UNCHANGED <<idx, yielded, araised>>
       ELSE IF ~Passes(filter, source[idx])
       THEN idx' = idx + 1 /\ UNCHANGED <<apc, yielded, araised>>
       ELSE IF ~BLUETOOTH_AVAILABLE
       THEN apc' = "done" /\ araised' = TRUE /\ UNCHANGED <<idx, yielded>>
       ELSE /\ yielded' = Append(yielded,
                    NewHandle(source[idx].address,
                              IF source[idx].name = "" THEN source[idx].address
                              ELSE source[idx].name))
            /\ idx' = idx + 1
            /\ UNCHANGED <<apc, araised>>
    /\ UNCHANGED <<backend, filter, source, btVars, scanVars, discVars, notAuto>>
    /\ UNCHANGED held

\* ThreespaceBLEComClass.auto_detect up to its loop: update_nearby_devices()
\* leaves the devices its scan heard in discovered_devices, and
\* `cls.discovered_devices.values()` is iterated in the order of the dict
BleAutoDetect ==
    /\ apc = "idle"
    /\ ~SCANNER_CONTINOUS
    /\ \E S \in SUBSET Addresses :
        /\ discovered_devices' = [a \in S |-> now]
        /\ heard' = S
        /\ source' \in Orderings(S)
    /\ scanResult' = ResultRec("update", FALSE, now, discovered_devices',
                               discovered_devices')
    /\ refreshed' = {}
    /\ backend' = "ble"
    /\ apc' = "loop"
    /\ filter' = "any"
    /\ idx' = 1
    /\ yielded' = <<>>
    /\ araised' = FALSE
    /\ UNCHANGED <<SCANNER_TIMEOUT, SCANNER_FIND_COUNT, scanning, queued, scanPc,
                   now, start_time, SCANNER_CONTINOUS, SCANNER_EXPIRATION_TIME,
                   btVars, notAuto>>
    /\ UNCHANGED held

\* ThreespaceBLEComClass.auto_detect: one turn of its for loop,
\* `yield(ThreespaceBLEComClass(device_info["device"]))`
BleYield ==
    /\ backend = "ble"
    /\ apc = "loop"
    /\ IF idx > Len(source)
       THEN apc' = "done" /\ UNCHANGED <<idx, yielded>>
       ELSE /\ yielded' = Append(yielded, NewHandle(source[idx], source[idx]))
            /\ idx' = idx + 1
            /\ UNCHANGED apc
    /\ UNCHANGED <<backend, filter, source, araised, btVars, scanVars, discVars,
                   notAuto>>
    /\ UNCHANGED held

\* the caller has the whole sequence and drops the generator
AutoReturn ==
    /\ apc = "done"
    /\ apc' = "idle"
    /\ UNCHANGED <<backend, filter, source, idx, yielded, araised, btVars,
                   scanVars, discVars, notAuto>>
    /\ UNCHANGED held

AutoNext ==
    \/ ClassicAutoDetect \/ Inquire \/ ClassicWait \/ ClassicRead
    \/ ClassicYield \/ BleAutoDetect \/ BleYield \/ AutoReturn

AutoSpec == AutoInit /\ [][AutoNext]_vars

\* C29: discovery never raises for "nothing found" and opens no connection:
\* with an empty ble map, with a Bluetooth snapshot that is None or empty, or
\* with no entry passing the filter, auto_detect yields nothing, and every
\* handle it yields is unopened with no connect attempted
NothingFoundYieldsNothing ==
    /\ ~araised
    /\ (\A i \in DOMAIN source : backend = "classic" /\ ~Passes(filter, source[i]))
        => yielded = <<>>
    /\ \A i \in DOMAIN yielded : ~yielded[i].opened /\ yielded[i].connects = 0

\* a Bluetooth auto_detect ran to its end over a snapshot with devices none of
\* which passed the filter
NothingFoundYieldsNothingWitness ==
    /\ apc = "done"
    /\ backend = "classic"
    /\ Len(source) = MaxFound
    /\ yielded = <<>>
    /\ ~araised

\* the handle auto_detect is to yield for the entry r
HandleFor(r) ==
    [address |-> r.address,
     name |-> IF r.name = "" THEN r.address ELSE r.name,
     opened |-> FALSE,
     connects |-> 0]

\* the handles of the entries of s, in the order of s
HandlesFor(s) == [i \in DOMAIN s |-> HandleFor(s[i])]

\* the entries of the snapshot the for loop has been through
Visited == SubSeq(source, 1, Min(idx - 1, Len(source)))

\* the device class of r is in the Wearable major category
WearableMajor(r) == (r.cod \div 256) % 32 = 7

\* the device class of r is in the Wearable major category with minor field 0
WearableMinorZero(r) == WearableMajor(r) /\ (r.cod \div 4) % 64 = 0

\* C30: Bluetooth auto_detect yields exactly one handle per snapshot entry
\* that passes the filter, in snapshot order, and none for the others; with
\* no filter given an entry passes if and only if its device class is in the
\* Wearable major category
YieldsWearable ==
    (backend = "classic" /\ apc \in {"loop", "done"}) =>
        yielded = HandlesFor(IF filter = "default"
                             THEN SelectSeq(Visited, WearableMajor)
                             ELSE Visited)

\* C30, as the code has it: one handle per passing entry, in snapshot order;
\* with no filter given an entry passes if and only if its device class is in
\* the Wearable major category and its minor field is 0
YieldsWearableMinorZero ==
    (backend = "classic" /\ apc \in {"loop", "done"}) =>
        yielded = HandlesFor(IF filter = "default"
                             THEN SelectSeq(Visited, WearableMinorZero)
                             ELSE Visited)

\* a default-filter auto_detect ran to its end over a Wearable device with a
\* minor code and one without: only the second got a handle
YieldsWearableMinorZeroWitness ==
    /\ backend = "classic"
    /\ apc = "done"
    /\ filter = "default"
    /\ Len(source) = 2
    /\ WearableMajor(source[1]) /\ ~WearableMinorZero(source[1])
    /\ WearableMinorZero(source[2])
    /\ Len(yielded) = 1

\* ------------------------------------------------------------------ unpair
\* ThreespaceBluetoothComClass.unpair beside the life of a Bluetooth handle,
\* which is a socket handle.

\* sys.platform
Platforms == {"linux", "darwin", "win32"}

PairInit ==
    /\ transport = "socket"
    /\ buffer = <<>>
    /\ IoQuiet
    /\ opened = FALSE
    /\ sock = "fresh"
    /\ connected = FALSE
    /\ subscribed = FALSE
    /\ max_packet_size = DefaultPacket
    /\ call = NoCall
    /\ prev = NoCall
    /\ everClosed = FALSE
    /\ failedOpen = FALSE
    /\ wpc = "idle"
    /\ wbytes = <<>>
    /\ start_index = 0
    /\ gatt = <<>>
    /\ BleQuiet
    /\ BLUETOOTH_AVAILABLE \in BOOLEAN
    /\ ScannerQuiet
    /\ platform \in Platforms
    /\ paired \in SUBSET Addresses
    /\ pcall = NoPair

\* a remove_device that is defined on no platform to raise
RemoveRaisesNever(p) == FALSE

\* `if sys.platform == "win32": ... else:` the remove_device that raises
\* NotImplementedError is the one defined
RemoveRaises(p) == p /= "win32"

\* unpair(address): remove_device(address).  On Windows BluetoothRemoveDevice
\* removes a paired device, fails, or reports that the device is not found
Unpair ==
    /\ \E a \in Addresses :
        IF RemoveRaises(platform)
        THEN /\ pcall' = [address |-> a, outcome |-> "NotImplementedError"]
             /\ UNCHANGED paired
        ELSE IF a \in paired
        THEN \/ /\ pcall' = [address |-> a, outcome |-> "removed"]
                /\ paired' = paired \ {a}
             \/ /\ pcall' = [address |-> a, outcome |-> "failed"]
                /\ UNCHANGED paired
        ELSE /\ pcall' = [address |-> a, outcome |-> "not found"]
             /\ UNCHANGED paired
    /\ UNCHANGED <<transport, buffer, ioVars, lifeVars, writeVars, scanVars,
                   discVars, btVars, autoVars, platform, held>>

PairNext == SockOpen \/ SockClose \/ LifeReceive \/ Unpair

PairSpec == PairInit /\ [][PairNext]_vars

\* C31: on a platform other than Windows unpair(address) fails with
\* NotImplementedError for every address and changes no state
UnpairUnsupported ==
    [][(platform /= "win32" /\ pcall' /= pcall) =>
        /\ pcall'.outcome = "NotImplementedError"
        /\ UNCHANGED <<transport, buffer, ioVars, lifeVars, writeVars, scanVars,
                       discVars, btVars, autoVars, platform, paired, held>>]_vars

\* unpair was called off Windows beside an open handle and a paired device
UnpairUnsupportedWitness ==
    /\ platform /= "win32"
    /\ pcall.outcome = "NotImplementedError"
    /\ pcall.address \in paired
    /\ opened

\* ------------------------------------------------------ snapshots handed out
\* What a caller holds after a discovery call, beside the background activity
\* of the backend it called: held.at is the content when it was handed out,
\* held.shared says that the object is the one the backend still writes to.

\* set_scanner_continous(continous) of the Bluetooth backend in one step:
\* __lazy_init_scanner() makes and starts the scanner on the first call
RunScanner ==
    /\ backend \in {"none", "classic"}
    /\ backend' = "classic"
    /\ scannerMade' = TRUE
    /\ IF scannerMade
       THEN UNCHANGED <<enabled, done, updated, tpc>>
       ELSE /\ enabled' = TRUE
            /\ done' = FALSE
            /\ updated' = FALSE
            /\ tpc' = [tpc EXCEPT ![1] = IF BLUETOOTH_AVAILABLE THEN "while"
                                         ELSE "dead"]
    /\ continous' \in BOOLEAN
    /\ UNCHANGED <<BLUETOOTH_AVAILABLE, execute, nearby, fpc, fret, farg, fout,
                   sinceStop, apc, filter, source, idx, yielded, araised, held,
                   scanVars, discVars, notAuto>>

\* Scanner.start() while the loop runs: `self.execute = True`
AskInquiry ==
    /\ scannerMade
    /\ ~done
    /\ execute' = TRUE
    /\ UNCHANGED <<BLUETOOTH_AVAILABLE, scannerMade, enabled, done, continous,
                   updated, nearby, tpc, fpc, fret, farg, fout, sinceStop,
                   autoVars, held, scanVars, discVars, notAuto>>

\* Scanner.get_most_recent in one step: None when nothing is new, else the
\* list `nearby` names, itself
HandList ==
    /\ scannerMade
    /\ updated
    /\ updated' = FALSE
    /\ held' = [kind |-> "list", shared |-> TRUE, at |-> nearby]
    /\ UNCHANGED <<BLUETOOTH_AVAILABLE, scannerMade, enabled, done, continous,
                   execute, nearby, tpc, fpc, fret, farg, fout, sinceStop,
                   autoVars, scanVars, discVars, notAuto>>

\* a get_discovered_nearby_devices that returns the dict itself
HandedDictItself == [kind |-> "dict", shared |-> TRUE, at |-> discovered_devices]

\* get_discovered_nearby_devices: `return cls.discovered_devices.copy()`
HandedDict == [kind |-> "dict", shared |-> FALSE, at |-> discovered_devices]

HandDict ==
    /\ backend \in {"none", "ble"}
    /\ scanPc = "idle"
    /\ backend' = "ble"
    /\ held' = HandedDict
    /\ UNCHANGED <<apc, filter, source, idx, yielded, araised, btVars, scanVars,
                   discVars, notAuto>>

\* what the object the caller holds shows now
HeldNow ==
    IF ~held.shared THEN held.at
    ELSE IF held.kind = "list" THEN nearby ELSE discovered_devices

\* an inquiry that finds at most MaxHeld devices
ShortInquire == Inquire /\ Len(nearby') <= MaxHeld

SnapNext ==
    \/ RunScanner \/ AskInquiry \/ ShortInquire \/ HandList \/ HandDict
    \/ (backend = "ble" /\ (SetContinuous \/ Detect \/ ContUpdate \/ IdleTick))

SnapSpec == DiscInit /\ [][SnapNext]_vars

\* C32: a discovery snapshot handed to the caller is never modified afterwards
\* by background activity: later inquiries replace the list get_most_recent
\* returned, and later detections and expirations leave the copy
\* get_discovered_nearby_devices returned as it was
SnapshotStable == held.kind /= "none" => HeldNow = held.at

\* the caller holds a dict of devices that the backend has since lost
SnapshotStableWitness ==
    /\ held.kind = "dict"
    /\ held.at /= <<>>
    /\ discovered_devices /= held.at

\* the caller holds a list that a later inquiry has replaced by another
SnapshotListReplaced ==
    /\ held.kind = "list"
    /\ nearby /= held.at

\* C33: in non-continuous mode Scanner.start() always results in an inquiry:
\* once start() has returned, and until the caller makes another call, a
\* result is there, or an inquiry is in flight, or the request is pending
\* before a loop that will take it up
StartLeadsToInquiry ==
    (fout = "started" /\ fpc = "idle" /\ ~continous /\ BLUETOOTH_AVAILABLE) =>
        \/ updated
        \/ \E i \in 1..MaxThreads :
            \/ tpc[i] \in InFlight
            \/ tpc[i] = "if" /\ execute
            \/ tpc[i] \in {"p0", "while"} /\ enabled /\ execute

\* Scanner.is_running: `return self.done`
is_running == done

\* C35: is_running reports the life of the background loop: between two calls
\* of the caller it is true exactly when a scan loop has been started and has
\* not finished, false before the first start() and after the loop has ended
IsRunningReportsLoop ==
    fpc = "idle" =>
        (is_running <=> \E i \in 1..MaxThreads : tpc[i] \in Alive)

\* C34: no lost wake-up in the ble wait: a coroutine suspended in
\* data_read_event.wait() sleeps only while the buffer does not hold what its
\* call waits for and the event is clear, and a notification that appends
\* bytes during the wait sends it back to its `while` test
NoLostWakeup ==
    /\ []((transport = "ble" /\ pc = "await") => (Unsatisfied(op) /\ ~event))
    /\ [][(transport = "ble" /\ pc = "await" /\ buffer' /= buffer)
            => pc' = "step"]_vars

\* a wait was entered, a notification then brought what the call waits for
\* and set the event, and the coroutine is back at its `while` test
NoLostWakeupWitness ==
    /\ transport = "ble"
    /\ pc = "step"
    /\ pulls >= 1
    /\ event
    /\ unmet
    /\ ~Unsatisfied(op)

Next ==
    \/ Arrive \/ PeerClose \/ Tick \/ SetTimeout \/ Done
    \/ SockCall \/ SockUpdateWhile \/ SockUpdateBuffer \/ SockTimeCheck
    \/ SockRead \/ SockPeek \/ SockReadUntil \/ SockPeekUntil \/ SockLength
    \/ SockWrite
    \/ BleCall \/ BleRun \/ BleStep \/ BleNotify \/ BleTimerFire \/ BleLateCallbacks
    \/ BleRead \/ BlePeek \/ BleReadUntil \/ BlePeekUntil \/ BleLength

Spec == Init /\ [][Next]_vars

\* ------------------------------------------------------------ properties
IsPrefix(p, s) == Len(p) <= Len(s) /\ SubSeq(s, 1, Len(p)) = p

IsSuffix(p, s) == Len(p) <= Len(s) /\ SubSeq(s, Len(s) - Len(p) + 1, Len(s)) = p

Front(s) == SubSeq(s, 1, Len(s) - 1)

WaitOps == {"read", "peek", "read_until", "peek_until"}

Returned(name) == pc = "done" /\ op.name = name

\* C1: read(n) returns exactly the first min(n, L) bytes of the buffer as it is
\* when the wait has finished and removes exactly those bytes from the head;
\* the bytes it returns are the stream positions right after everything
\* returned before, so nothing is returned twice.
ReadExact ==
    Returned("read") =>
        /\ outcome = "bytes"
        /\ Len(result) = Min(op.n, Len(snap))
        /\ result \o buffer = snap
        /\ Len(consumed) <= Len(sent)
        /\ result = SubSeq(sent, Len(consumed) - Len(result) + 1, Len(consumed))

ReadExactWitness ==
    /\ Returned("read")
    /\ Len(result) = op.n
    /\ op.n >= 1
    /\ buffer /= <<>>
    /\ Len(consumed) > Len(result)

\* C2: the bytes consumed so far, then the buffer, then what is still in
\* flight, are exactly the bytes the peer emitted, in order: nothing is lost,
\* reordered or duplicated.
Fifo == consumed \o buffer \o chan = sent

FifoWitness ==
    /\ consumed /= <<>>
    /\ buffer /= <<>>
    /\ chan /= <<>>
    /\ pc = "idle"

\* C3: when the buffer holds the pattern, read_until returns the prefix that
\* ends with the first occurrence of the pattern and leaves the rest.
ReadUntilFound ==
    (Returned("read_until") /\ Contains(snap, op.pat)) =>
        /\ outcome = "bytes"
        /\ result \o buffer = snap
        /\ IsSuffix(op.pat, result)
        /\ ~Contains(Front(result), op.pat)

ReadUntilFoundWitness ==
    /\ Returned("read_until")
    /\ Contains(snap, op.pat)
    /\ Len(result) > Len(op.pat)
    /\ buffer /= <<>>

\* C4: when the wait of read_until ends without the pattern in the buffer (it
\* then ended on the timeout), read_until returns the whole buffer and leaves
\* it empty.
ReadUntilTimeout ==
    (Returned("read_until") /\ ~Contains(snap, op.pat)) =>
        /\ timedOut
        /\ outcome = "bytes"
        /\ result = snap
        /\ buffer = <<>>

ReadUntilTimeoutWitness ==
    /\ Returned("read_until")
    /\ ~Contains(snap, op.pat)
    /\ timedOut
    /\ Len(result) >= 2

\* C5: peek(n) returns the first min(n, L) bytes and leaves the buffer as it
\* is, and a read(n) that follows it with nothing appended in between returns
\* the same bytes.
PeekThenRead ==
    /\ Returned("peek") =>
        /\ outcome = "bytes"
        /\ Len(result) = Min(op.n, Len(snap))
        /\ IsPrefix(result, snap)
        /\ buffer = snap
    /\ (Returned("read") /\ lastPeek.valid /\ lastPeek.n = op.n) =>
        result = lastPeek.result

PeekThenReadWitness ==
    /\ Returned("read")
    /\ lastPeek.valid
    /\ lastPeek.n = op.n
    /\ result /= <<>>
    /\ buffer /= <<>>

\* C6: peek_until returns a prefix of the buffer no longer than max_length and
\* leaves the buffer unchanged; when the first occurrence of the pattern ends
\* beyond max_length the result is exactly the first max_length bytes.
PeekUntilBounded ==
    Returned("peek_until") =>
        /\ outcome = "bytes"
        /\ IsPrefix(result, snap)
        /\ op.hasMax => Len(result) <= op.max
        /\ buffer = snap
        /\ (op.hasMax /\ Contains(snap, op.pat)
              /\ Index(snap, op.pat) + Len(op.pat) > op.max)
           => result = SliceTo(snap, op.max)

\* C7: when peek_until stops without the pattern in the buffer it returns the
\* first min(len(buffer), max_length) bytes (the whole buffer when max_length
\* is None) as a byte sequence.
PeekUntilNoMatch ==
    (Returned("peek_until") /\ ~Contains(snap, op.pat)) =>
        /\ outcome = "bytes"
        /\ result = IF op.hasMax THEN SliceTo(snap, op.max) ELSE snap

\* C8: on a socket handle no pull waits for the peer, the wait loop goes on
\* only while the elapsed time is below timeout, and a read, peek, read_until
\* or peek_until whose wait ended on the timeout returns normally.
SockAlwaysReturns ==
    transport = "socket" =>
        /\ ~blocked
        /\ (pc \in {"cond", "pull"} /\ op.name \in WaitOps /\ pulls > 0)
              => elapsed < timeout
        /\ (pc = "done" /\ op.name \in WaitOps /\ timedOut) => outcome = "bytes"

\* C9: a ble call that waits for the data event has returned by the time
\* timeout has elapsed since the call.
BleReturnsByTimeout ==
    (transport = "ble" /\ pc = "await") => elapsed <= timeout

\* C10: with timeout = 0 a read / peek / read_until / peek_until whose
\* condition is not met at the call goes through its wait loop at most once
\* (the socket pulls exactly once) and then returns what is available.
ZeroTimeoutOnce ==
    (timeout = 0 /\ op.name \in WaitOps /\ unmet) =>
        /\ pulls <= 1
        /\ pc = "done" =>
              /\ transport = "socket" => pulls = 1
              /\ outcome = "bytes"
              /\ IsPrefix(result, snap)

\* C11: reading `length` terminates: its drain stops at the first receive that
\* brings nothing (would-block or a zero-byte receive at end of stream), it
\* never waits for the peer, and it returns the size of the buffer and leaves
\* the buffer as it is.
LengthTerminates ==
    op.name = "length" =>
        /\ ~blocked
        /\ pc = "pull" => ~emptyRecv
        /\ pc = "done" => outcome = "size" /\ result = <<Len(snap)>> /\ buffer = snap

\* C18: a socket write that has returned has handed the kernel every byte of b,
\* once and in order, whatever mode the socket was left in.
WriteSendsAll ==
    (transport = "socket" /\ Returned("write")) =>
        outcome = "none" /\ wire = op.bytes

\* C12: a socket open() that fails to connect returns False (it does not
\* raise), closes the socket, leaves check_open() false and the buffer as it
\* was (empty); from then on the handle is never open and every open() on it
\* returns False.
SockOpenFailure ==
    transport = "socket" =>
        /\ (call.name = "open" /\ ~call.wasOpen /\ ~call.completed) =>
              /\ call.ret = "False"
              /\ sock = "closed"
              /\ ~check_open
              /\ call.bufKept
        /\ failedOpen =>
              /\ ~check_open
              /\ call.name = "open" => call.ret = "False"
        /\ (failedOpen /\ ~everClosed) => buffer = <<>>

SockOpenFailureWitness ==
    /\ transport = "socket"
    /\ prev.name = "open" /\ prev.ret = "False" /\ prev.connects = 1
    /\ call.name = "open" /\ call.ret = "False" /\ call.connects = 0

\* C13: a ble open() that does not complete (connect raises, or connect
\* succeeds and start_notify raises) returns False and leaves check_open()
\* false.
BleOpenFailure ==
    (transport = "ble" /\ call.name = "open" /\ ~call.wasOpen
        /\ ~call.completed) =>
        /\ call.ret = "False"
        /\ ~check_open

\* C14: open() on a handle that is open makes no connect and no subscribe,
\* leaves the buffer and the connection as they are and returns True.
OpenIdempotent ==
    (call.name = "open" /\ call.wasOpen) =>
        /\ call.connects = 0 /\ call.subscribes = 0 /\ call.teardowns = 0
        /\ call.bufKept
        /\ call.ret = "True"

\* C15: close() called twice in a row raises nothing, the second call tears
\* nothing down, and check_open() is false after each of the two.
CloseIdempotent ==
    /\ call.name = "close" => call.ret = "None" /\ ~check_open
    /\ (prev.name = "close" /\ call.name = "close") =>
          /\ prev.ret = "None"
          /\ ~call.wasOpen
          /\ call.teardowns = 0

CloseIdempotentWitness ==
    /\ prev.name = "close" /\ prev.wasOpen /\ prev.teardowns = 1
    /\ call.name = "close"

\* C16 as stated: on every transport, once close() has been called on an open
\* handle, check_open() is never true again.
NoReopen == everClosed => ~check_open

\* C16, socket handles: once close() has been called on an open handle,
\* check_open() is never true again and every open() returns False.
SockNoReopen ==
    (transport = "socket" /\ everClosed) =>
        /\ ~check_open
        /\ call.name = "open" => call.ret = "False"

SockNoReopenWitness ==
    /\ transport = "socket" /\ everClosed
    /\ prev.name = "close" /\ prev.wasOpen
    /\ call.name = "open" /\ call.ret = "False"

\* s[1] \o s[2] \o ... \o s[Len(s)]
RECURSIVE Concat(_)
Concat(s) == IF s = <<>> THEN <<>> ELSE Head(s) \o Concat(Tail(s))

\* ceil(a / b) for b >= 1
CeilDiv(a, b) == (a + b - 1) \div b

\* C17: with m = max_packet_size >= 1 the GATT writes issued so far carry
\* 1..m bytes each and concatenate, in issue order, to bytes[:start_index], so
\* the loop makes at most len(bytes) turns; a write that returns has issued
\* exactly ceil(len(bytes) / m) of them, carrying all of bytes, and none for
\* an empty argument.
BleWriteChunks ==
    (transport = "ble" /\ call.name = "write") =>
        /\ max_packet_size >= 1
        /\ start_index <= Len(wbytes)
        /\ Concat(gatt) = SliceTo(wbytes, start_index)
        /\ \A i \in 1..Len(gatt) :
              Len(gatt[i]) >= 1 /\ Len(gatt[i]) <= max_packet_size
        /\ Len(gatt) <= start_index
        /\ call.ret = "None" =>
              /\ Len(gatt) = CeilDiv(Len(wbytes), max_packet_size)
              /\ Concat(gatt) = wbytes
              /\ wbytes = <<>> => gatt = <<>>

BleWriteChunksWitness ==
    /\ transport = "ble" /\ call.name = "write" /\ call.ret = "None"
    /\ max_packet_size = DefaultPacket
    /\ Len(wbytes) = MaxWrite
    /\ Len(gatt) = 3

\* the number of devices discovered has reached SCANNER_FIND_COUNT
CountReached ==
    /\ SCANNER_FIND_COUNT /= None
    /\ Cardinality(DOMAIN discovered_devices) >= SCANNER_FIND_COUNT[1]

\* the time elapsed since start_time has reached SCANNER_TIMEOUT
TimeReached == SCANNER_TIMEOUT /= None /\ ScanElapsed >= SCANNER_TIMEOUT[1]

\* C19: with SCANNER_TIMEOUT = T > 0 the one-shot scan ends at the first check
\* where the discovered count has reached SCANNER_FIND_COUNT or the elapsed
\* time has reached T: it goes round the loop only while neither holds and
\* leaves it only when one does (never on the count when it is None).
ScanEndsAtFirstReach ==
    (SCANNER_TIMEOUT /= None /\ SCANNER_TIMEOUT /= <<0>>) =>
        /\ scanPc = "run" => ~CountReached /\ ~TimeReached
        /\ scanPc = "stop" => CountReached \/ TimeReached

\* C20: the one-shot scan searches for at most SCANNER_TIMEOUT, for every
\* value of SCANNER_TIMEOUT and SCANNER_FIND_COUNT: it goes round the loop
\* only while the elapsed time is below SCANNER_TIMEOUT, and the scanner is
\* stopped when the call has returned.
ScanStopsByTimeout ==
    /\ (scanPc = "run" /\ SCANNER_TIMEOUT /= None) => ~TimeReached
    /\ scanPc = "idle" => ~scanning

\* C21: when a one-shot update_nearby_devices returns, discovered_devices
\* holds exactly the addresses detected during that scan, each found during
\* it, and nothing from an earlier scan or from continuous mode.
OneShotReplaces ==
    (scanPc = "done" /\ ~SCANNER_CONTINOUS) =>
        /\ DOMAIN discovered_devices = heard
        /\ \A a \in DOMAIN discovered_devices :
              discovered_devices[a] >= start_time

OneShotReplacesWitness ==
    /\ scanPc = "done"
    /\ scanResult.call = "update" /\ ~scanResult.cont
    /\ "a2" \in DOMAIN scanResult.devices
    /\ scanResult.at < start_time
    /\ DOMAIN discovered_devices = {"a1"}

\* the result holds exactly the entries that were found within the window
WindowKept(r) ==
    \A a \in DOMAIN r.before :
        /\ (r.at - r.before[a] > SCANNER_EXPIRATION_TIME) => a \notin DOMAIN r.devices
        /\ (r.at - r.before[a] <= SCANNER_EXPIRATION_TIME) =>
              a \in DOMAIN r.devices /\ r.devices[a] = r.before[a]

\* C22 as stated: in continuous mode the result of update_nearby_devices and
\* of get_discovered_nearby_devices holds no entry last found longer ago than
\* SCANNER_EXPIRATION_TIME and every entry found within it.
ContExpires ==
    (scanResult.cont /\ scanResult.call \in {"update", "get"}) =>
        WindowKept(scanResult)

\* C22, update_nearby_devices only: in continuous mode its result holds no
\* entry last found longer ago than SCANNER_EXPIRATION_TIME and every entry
\* found within it, with its last_found.
ContUpdateExpires ==
    (scanResult.cont /\ scanResult.call = "update") => WindowKept(scanResult)

ContUpdateExpiresWitness ==
    /\ scanResult.cont /\ scanResult.call = "update"
    /\ DOMAIN scanResult.before = {"a1", "a2"}
    /\ DOMAIN scanResult.devices = {"a2"}
    /\ "a2" \in refreshed

\* C23: the map has one entry per address; the callbacks that run overwrite
\* the entry of a detected address with last_found = the time they run, and
\* no step moves the last_found of an entry backwards.
OneEntryPerAddress ==
    [][/\ DOMAIN discovered_devices' \subseteq Addresses
       /\ \A a \in DOMAIN discovered_devices' :
             /\ discovered_devices'[a] <= now'
             /\ a \in DOMAIN discovered_devices =>
                   discovered_devices'[a] >= discovered_devices[a]
       /\ (queued /= {} /\ queued' = {}) =>
             \A a \in queued :
                a \in DOMAIN discovered_devices' => discovered_devices'[a] = now']_vars

OneEntryPerAddressWitness ==
    \E a \in refreshed :
        /\ a \in DOMAIN discovered_devices
        /\ a \in DOMAIN scanResult.devices
        /\ scanResult.devices[a] < discovered_devices[a]
        /\ Cardinality(DOMAIN discovered_devices) = 2

====
